---- MODULE Spec2Model ----
(***************************************************************************)
(* A model of the vulnerability comparison engine of az_vuln_cli:          *)
(*   - generate_detailed_comparison.py : the environment comparator        *)
(*   - update_fixed_versions.py        : the fixed-version resolver        *)
(*   - generate_remediation_csv.py     : the record extractor              *)
(*   - generate_summary.py             : the package aggregator            *)
(*                                                                         *)
(* Text that the code takes apart or glues together (package names,        *)
(* versions, keys, image references, file names, decimal counts) is a      *)
(* sequence of one-character strings, so that concatenation, splitting,    *)
(* prefix tests and comparisons are computed as the code computes them.    *)
(* Text that the code only copies or compares as a whole (status words,    *)
(* image names and finding ids inside the comparator, the fixed texts      *)
(* of the output) is a TLA+ string.                                        *)
(***************************************************************************)
EXTENDS Integers, Sequences, FiniteSets, TLC

VARIABLES
    \* ---- generate_detailed_comparison.py ----
    prod_file,            \* reports/production/vulnerabilities_summary.csv
    latest_file,          \* reports/latest/vulnerabilities_summary.csv
    prod_tracking_file,   \* reports/production/vulnerabilities_tracking.csv
    all_results,          \* the rows of the comparison, in output order
    output_file,          \* reports/comparison/detailed_vulnerability_comparison.csv
    cmp_pc,               \* "start" | "skipped" | "done"
    \* ---- update_fixed_versions.py ----
    tracking_csv,         \* the tracking file given as <tracking_csv>
    current_sbom_dir,     \* the SBOM files of the baseline images, by file name
    latest_sbom_dir,      \* the SBOM files of the candidate images, by file name
    rows,                 \* the rows update_fixed_versions holds in memory
    acr_images,           \* acr_image of each image of the loop ("" for None)
    updated_count,        \* updated_count
    output_csv,           \* the file given as <output_csv>
    ufv_pc,               \* "start" | "done"
    \* ---- generate_remediation_csv.py ----
    sbom_file,            \* the SBOM document in the file given as <sbom_file>
    csv_data,             \* csv_data of the last run, sorted
    remediation_csv,      \* the file given as <output_file>
    ext_runs,             \* csv_data of every run so far, in the order of the runs
    ext_pc,               \* "idle" | "ready"
    \* ---- generate_summary.py ----
    input_csv,            \* the tracking file given as <input_csv>
    summary_data,         \* summary_data, sorted
    summary_csv,          \* the file given as <output_csv>
    sum_pc,               \* "idle" | "ready" | "done"
    \* ---- extract_os_from_sboms.py ----
    sbom_dir,             \* the *.json files of the directory given as --directory
    os_results,           \* what process_sbom_directory returns
    os_pc,                \* "idle" | "ready" | "done"
    \* ---- az_vuln_cli.py, _generate_detailed_comparison ----
    reports,              \* the files and links of reports/
    reports_before,       \* the files and links of reports/ before the call
    gdc_pc,               \* "idle" | "start" | "prod" | "dev" | "done" | "failed"
    \* ---- generate_detailed_comparison.py reading a summary file ----
    severity_columns,     \* the severity columns of the rows made of the summary rows
    brk_pc,               \* "idle" | "ready" | "done"
    \* ---- update_fixed_versions.py, run on its own output ----
    rows_again,           \* the rows the second run holds in memory
    updated_again,        \* updated_count of the second run
    rerun_pc,             \* "idle" | "ready" | "done"
    \* ---- compare_vulnerabilities.py ----
    cv_fixed,             \* len(fixed_packages) as reported
    cv_new,               \* len(new_vulns) as reported
    cv_pc                 \* "idle" | "start" | "skipped" | "done"

cmp_vars == <<prod_file, latest_file, prod_tracking_file, all_results, output_file, cmp_pc>>

ufv_vars == <<tracking_csv, current_sbom_dir, latest_sbom_dir, rows, acr_images,
              updated_count, output_csv, ufv_pc>>

ext_vars == <<sbom_file, csv_data, remediation_csv, ext_runs, ext_pc>>

sum_vars == <<input_csv, summary_data, summary_csv, sum_pc>>

os_vars == <<sbom_dir, os_results, os_pc>>

gdc_vars == <<reports, reports_before, gdc_pc>>

brk_vars == <<severity_columns, brk_pc>>

rerun_vars == <<rows_again, updated_again, rerun_pc>>

cv_vars == <<cv_fixed, cv_new, cv_pc>>

vars == <<cmp_vars, ufv_vars, ext_vars, sum_vars, os_vars, gdc_vars, brk_vars, rerun_vars, cv_vars>>

(***************************************************************************)
(* Bounds of the model.                                                    *)
(***************************************************************************)
MaxRows == 4        \* rows of the two summary files together
MaxCount == 2       \* findings counted in one summary row
MaxTracking == 2    \* rows of the baseline tracking file
MaxUfvRows == 2     \* rows of the tracking file the resolver reads
MaxFindings == 2    \* findings of an SBOM document
MaxRuns == 2        \* runs of the extractor on one document
MaxRatings == 2     \* ratings of a finding
MaxHints == 2       \* version entries of an affect
MaxRecords == 2     \* rows of the tracking file the summary reads
MaxFiles == 3       \* files of the directory process_sbom_directory reads
MaxCvRows == 3      \* rows of the two summaries that both comparisons read

(***************************************************************************)
(* Text.                                                                   *)
(***************************************************************************)
\* Code points of the characters the model uses (Python compares str by code point).
CharCode ==
    ("a" :> 97) @@ ("b" :> 98) @@ ("c" :> 99) @@ ("r" :> 114) @@ ("s" :> 115)
    @@ ("|" :> 124) @@ ("_" :> 95) @@ ("/" :> 47) @@ (":" :> 58) @@ ("@" :> 64)
    @@ ("." :> 46) @@ (" " :> 32) @@ ("," :> 44)
    @@ ("C" :> 67) @@ ("H" :> 72) @@ ("I" :> 73) @@ ("L" :> 76) @@ ("M" :> 77) @@ ("U" :> 85)
    @@ ("d" :> 100) @@ ("e" :> 101) @@ ("f" :> 102) @@ ("g" :> 103) @@ ("h" :> 104) @@ ("i" :> 105) @@ ("j" :> 106)
    @@ ("k" :> 107) @@ ("l" :> 108) @@ ("m" :> 109) @@ ("n" :> 110) @@ ("o" :> 111)
    @@ ("t" :> 116) @@ ("u" :> 117) @@ ("w" :> 119)
    @@ ("0" :> 48) @@ ("1" :> 49) @@ ("2" :> 50) @@ ("3" :> 51) @@ ("4" :> 52)
    @@ ("5" :> 53) @@ ("6" :> 54) @@ ("7" :> 55) @@ ("8" :> 56) @@ ("9" :> 57)

\* s < t for two texts, as Python's str.__lt__ decides it.
RECURSIVE StrLess(_, _)
StrLess(s, t) ==
    IF t = <<>> THEN FALSE
    ELSE IF s = <<>> THEN TRUE
    ELSE IF CharCode[Head(s)] # CharCode[Head(t)] THEN CharCode[Head(s)] < CharCode[Head(t)]
    ELSE StrLess(Tail(s), Tail(t))

DigitChar == <<"0", "1", "2", "3", "4", "5", "6", "7", "8", "9">>

\* str(n) for a natural number: what csv.DictWriter puts into the count column.
RECURSIVE DecStr(_)
DecStr(n) ==
    IF n < 10 THEN <<DigitChar[n + 1]>>
    ELSE DecStr(n \div 10) \o <<DigitChar[(n % 10) + 1]>>

\* int(s) for a text of decimal digits.
RECURSIVE ParseInt(_)
ParseInt(s) ==
    IF s = <<>> THEN 0
    ELSE 10 * ParseInt(SubSeq(s, 1, Len(s) - 1)) + (CharCode[s[Len(s)]] - 48)

Range(s) == {s[i] : i \in 1..Len(s)}

\* The order of the whole-text items (image names, finding ids) under sorted().
ItemRank == ("CVE-1" :> 1) @@ ("Unknown" :> 2) @@ ("i1" :> 3) @@ ("i2" :> 4)

\* sorted(S) for a set of whole-text items.
RECURSIVE SortedItems(_)
SortedItems(S) ==
    IF S = {} THEN <<>>
    ELSE LET m == CHOOSE x \in S : \A y \in S : ItemRank[x] <= ItemRank[y]
         IN  <<m>> \o SortedItems(S \ {m})

(***************************************************************************)
(* The inputs of the comparator.                                           *)
(***************************************************************************)
\* Package names and versions.  "a|b" with "c" and "a" with "b|c" are two
\* packages whose names and versions join to the same text around a "|".
PkgPairs ==
    { <<(<<"a">>), (<<"c">>)>>,
      <<(<<"a", "|", "b">>), (<<"c">>)>>,
      <<(<<"a">>), (<<"b", "|", "c">>)>>,
      <<(<<"b">>), (<<"c">>)>> }

\* A row of vulnerabilities_summary.csv, with the columns the comparison reads
\* to classify a package.  generate_summary writes Vulnerability_Count as the
\* decimal text of len(vulns), which is at least 1.
SummaryRows ==
    { [Package_Name |-> p[1], Current_Version |-> p[2], Vulnerability_Count |-> DecStr(n)] :
        p \in PkgPairs, n \in 1..MaxCount }

PairOf(row) == <<row.Package_Name, row.Current_Version>>

\* The row lists generate_summary can write, n rows long: one row for each package.
RECURSIVE SummarySeqs(_)
SummarySeqs(n) ==
    IF n = 0 THEN {<<>>}
    ELSE UNION { { Append(s, r) : r \in {q \in SummaryRows :
                                            \A i \in 1..Len(s) : PairOf(s[i]) # PairOf(q)} } :
                 s \in SummarySeqs(n - 1) }

\* The summary files with n rows; a file that is not there has no row.
SummaryFiles(n) ==
    (IF n = 0 THEN {[exists |-> FALSE, rows |-> <<>>]} ELSE {})
    \cup { [exists |-> TRUE, rows |-> s] : s \in SummarySeqs(n) }

TrackImages == {"i1", "i2"}
TrackIds == {"CVE-1", "Unknown"}

\* A row of vulnerabilities_tracking.csv, with the columns the comparison reads.
TrackingRows ==
    { [Image |-> i, Vulnerability_ID |-> v, Package_Name |-> p[1], Current_Version |-> p[2]] :
        i \in TrackImages, v \in TrackIds, p \in PkgPairs }

\* The tracking files, up to the order of their rows: the comparison collects
\* the rows into sets, so the files are listed in one order each.
RECURSIVE TrackingSets(_)
TrackingSets(n) ==
    IF n = 0 THEN {{}}
    ELSE LET smaller == TrackingSets(n - 1)
         IN  smaller \cup { S \cup {r} : S \in smaller, r \in TrackingRows }

RECURSIVE SeqOfSet(_)
SeqOfSet(S) ==
    IF S = {} THEN <<>>
    ELSE LET r == CHOOSE x \in S : TRUE IN <<r>> \o SeqOfSet(S \ {r})

TrackingFiles ==
    {[exists |-> FALSE, rows |-> <<>>]} \cup
    { [exists |-> TRUE, rows |-> SeqOfSet(S)] : S \in TrackingSets(MaxTracking) }

(***************************************************************************)
(* generate_detailed_comparison.py                                         *)
(***************************************************************************)
\* load_csv_data: the rows of the file, [] when the file is not there.
load_csv_data(file) == IF file.exists THEN file.rows ELSE <<>>

\* create_package_key: f"{Package_Name}|{Current_Version}"
create_package_key(row) == row.Package_Name \o <<"|">> \o row.Current_Version

\* A dict filled by "for row in data: d[create_package_key(row)] = row":
\* its keys in insertion order, and the row it holds for a key (the last one).
RECURSIVE DictKeys(_)
DictKeys(data) ==
    IF data = <<>> THEN <<>>
    ELSE LET front == DictKeys(SubSeq(data, 1, Len(data) - 1))
             k == create_package_key(data[Len(data)])
         IN  IF k \in Range(front) THEN front ELSE Append(front, k)

DictGet(data, k) ==
    LET last == CHOOSE i \in 1..Len(data) :
                    /\ create_package_key(data[i]) = k
                    /\ \A j \in (i + 1)..Len(data) : create_package_key(data[j]) # k
    IN  data[last]

HasKey(data, k) == \E i \in 1..Len(data) : create_package_key(data[i]) = k

\* A faulty package_to_images: the images of every tracking row, whatever its key.
package_to_images_AnyKey(tracking, key) ==
    { tracking[i].Image : i \in 1..Len(tracking) }

\* package_to_images[key]: the Image values of the tracking rows of the key.
package_to_images(tracking, key) ==
    { tracking[i].Image : i \in {j \in 1..Len(tracking) : create_package_key(tracking[j]) = key} }

\* package_to_vulns[key]: their Vulnerability_ID values other than 'Unknown'.
package_to_vulns(tracking, key) ==
    { tracking[i].Vulnerability_ID :
        i \in {j \in 1..Len(tracking) :
                 /\ create_package_key(tracking[j]) = key
                 /\ tracking[j].Vulnerability_ID # "Unknown"} }

\* '; '.join(sorted(S)) if S else 'Unknown', as the list of the joined items.
JoinedOrUnknown(S) == IF S = {} THEN <<"Unknown">> ELSE SortedItems(S)

\* The row appended to fixed_packages.
FixedRow(prod_row, tracking) ==
    LET key == create_package_key(prod_row) IN
    [ Status |-> "FIXED",
      Package |-> prod_row.Package_Name,
      Current_Version |-> prod_row.Current_Version,
      Affected_Images |-> JoinedOrUnknown(package_to_images(tracking, key)),
      Fixed_Vulnerabilities |-> JoinedOrUnknown(package_to_vulns(tracking, key)),
      Vulnerability_Count_Prod |-> prod_row.Vulnerability_Count,
      Vulnerability_Count_Latest |-> <<"0">>,
      Impact |-> <<"Eliminates ">> \o prod_row.Vulnerability_Count \o <<" vulnerabilities">> ]

\* A faulty NewRow: the two count columns are swapped.
NewRow_CountsSwapped(latest_row) ==
    [ Status |-> "NEW",
      Package |-> latest_row.Package_Name,
      Current_Version |-> latest_row.Current_Version,
      Affected_Images |-> <<"N/A (Latest only)">>,
      Fixed_Vulnerabilities |-> <<"N/A (New in latest)">>,
      Vulnerability_Count_Prod |-> latest_row.Vulnerability_Count,
      Vulnerability_Count_Latest |-> <<"0">>,
      Impact |-> <<"Introduces ">> \o latest_row.Vulnerability_Count \o <<" new vulnerabilities">> ]

\* The row appended to new_vulnerabilities.
NewRow(latest_row) ==
    [ Status |-> "NEW",
      Package |-> latest_row.Package_Name,
      Current_Version |-> latest_row.Current_Version,
      Affected_Images |-> <<"N/A (Latest only)">>,
      Fixed_Vulnerabilities |-> <<"N/A (New in latest)">>,
      Vulnerability_Count_Prod |-> <<"0">>,
      Vulnerability_Count_Latest |-> latest_row.Vulnerability_Count,
      Impact |-> <<"Introduces ">> \o latest_row.Vulnerability_Count \o <<" new vulnerabilities">> ]

\* status of a package found on both sides.
ChangeStatus(prod_count, latest_count) ==
    IF prod_count # latest_count
    THEN (IF latest_count < prod_count THEN "IMPROVED" ELSE "WORSENED")
    ELSE "UNCHANGED"

\* impact of a package found on both sides.  The fixed parts of a text are one
\* item each; " -> " is the arrow of the source, " \u2192 ".
ChangeImpact(prod_count, latest_count) ==
    IF prod_count # latest_count
    THEN <<"Change: ">> \o DecStr(prod_count) \o <<" -> ">> \o DecStr(latest_count)
         \o <<" vulnerabilities">>
    ELSE <<"No change: ">> \o DecStr(prod_count) \o <<" vulnerabilities">>

\* The row appended to unchanged_packages.
BothRow(prod_row, latest_row, tracking) ==
    LET key == create_package_key(prod_row)
        prod_count == ParseInt(prod_row.Vulnerability_Count)
        latest_count == ParseInt(latest_row.Vulnerability_Count)
        status == ChangeStatus(prod_count, latest_count)
    IN
    [ Status |-> status,
      Package |-> prod_row.Package_Name,
      Current_Version |-> prod_row.Current_Version,
      Affected_Images |-> JoinedOrUnknown(package_to_images(tracking, key)),
      Fixed_Vulnerabilities |->
          IF status \in {"IMPROVED", "WORSENED"}
          THEN JoinedOrUnknown(package_to_vulns(tracking, key))
          ELSE <<"Still present">>,
      Vulnerability_Count_Prod |-> prod_row.Vulnerability_Count,
      Vulnerability_Count_Latest |-> latest_row.Vulnerability_Count,
      Impact |-> ChangeImpact(prod_count, latest_count) ]

\* fixed_packages: a row for each baseline key the candidate lacks, in key order.
fixed_packages(prod, latest, tracking) ==
    LET Keep(k) == ~HasKey(latest, k)
        kept == SelectSeq(DictKeys(prod), Keep)
    IN  [i \in 1..Len(kept) |-> FixedRow(DictGet(prod, kept[i]), tracking)]

\* new_vulnerabilities: a row for each candidate key the baseline lacks.
new_vulnerabilities(prod, latest) ==
    LET Keep(k) == ~HasKey(prod, k)
        kept == SelectSeq(DictKeys(latest), Keep)
    IN  [i \in 1..Len(kept) |-> NewRow(DictGet(latest, kept[i]))]

\* unchanged_packages: a row for each baseline key the candidate has too.
unchanged_packages(prod, latest, tracking) ==
    LET Keep(k) == HasKey(latest, k)
        kept == SelectSeq(DictKeys(prod), Keep)
    IN  [i \in 1..Len(kept) |->
            BothRow(DictGet(prod, kept[i]), DictGet(latest, kept[i]), tracking)]

status_priority ==
    ("FIXED" :> 0) @@ ("IMPROVED" :> 1) @@ ("NEW" :> 2) @@ ("WORSENED" :> 3) @@ ("UNCHANGED" :> 4)

\* A faulty SortKey: the baseline count is not negated, so smaller counts come first.
SortKey_CountAscending(x) ==
    <<status_priority[x.Status], ParseInt(x.Vulnerability_Count_Prod), x.Package>>

\* The key of all_results.sort, and the order of two keys (tuples compare
\* component by component).
SortKey(x) ==
    <<status_priority[x.Status], 0 - ParseInt(x.Vulnerability_Count_Prod), x.Package>>

KeyLess(k1, k2) ==
    \/ k1[1] < k2[1]
    \/ k1[1] = k2[1] /\ k1[2] < k2[2]
    \/ k1[1] = k2[1] /\ k1[2] = k2[2] /\ StrLess(k1[3], k2[3])

\* list.sort(key=...): stable, so a row goes behind the rows it does not precede.
RECURSIVE SortRows(_)
SortRows(results) ==
    IF results = <<>> THEN <<>>
    ELSE LET front == SortRows(SubSeq(results, 1, Len(results) - 1))
             x == results[Len(results)]
             n == Cardinality({i \in 1..Len(front) : ~KeyLess(SortKey(x), SortKey(front[i]))})
         IN  SubSeq(front, 1, n) \o <<x>> \o SubSeq(front, n + 1, Len(front))

\* all_results after the sort.
ComparisonRows(prod, latest, tracking) ==
    SortRows(fixed_packages(prod, latest, tracking)
             \o new_vulnerabilities(prod, latest)
             \o unchanged_packages(prod, latest, tracking))

NoFile == [exists |-> FALSE, rows |-> <<>>]

\* A faulty NoData: the comparison goes on without data.
NoData_Never(data) == FALSE

\* "if not prod_data" / "if not latest_data": a list with no row.
NoData(data) == data = <<>>

\* generate_detailed_comparison, the early returns: "if not prod_data: return",
\* "if not latest_data: return".
CmpSkip ==
    /\ cmp_pc = "start"
    /\ \/ NoData(load_csv_data(prod_file))
       \/ NoData(load_csv_data(latest_file))
    /\ cmp_pc' = "skipped"
    /\ UNCHANGED <<prod_file, latest_file, prod_tracking_file, all_results, output_file>>
    /\ UNCHANGED <<ufv_vars, ext_vars, sum_vars, os_vars, gdc_vars, brk_vars, rerun_vars, cv_vars>>

\* generate_detailed_comparison on two summaries with rows: classify, sort, and
\* write the file "if all_results".
CmpRun ==
    /\ cmp_pc = "start"
    /\ ~NoData(load_csv_data(prod_file))
    /\ ~NoData(load_csv_data(latest_file))
    /\ all_results' = ComparisonRows(load_csv_data(prod_file), load_csv_data(latest_file),
                                     load_csv_data(prod_tracking_file))
    /\ output_file' = IF all_results' # <<>>
                      THEN [exists |-> TRUE, rows |-> all_results']
                      ELSE output_file
    /\ cmp_pc' = "done"
    /\ UNCHANGED <<prod_file, latest_file, prod_tracking_file>>
    /\ UNCHANGED <<ufv_vars, ext_vars, sum_vars, os_vars, gdc_vars, brk_vars, rerun_vars, cv_vars>>

(***************************************************************************)
(* update_fixed_versions.py                                                *)
(***************************************************************************)
\* str.replace(old, new) for a one-character old.
RECURSIVE Replace(_, _, _)
Replace(text, old, new) ==
    IF text = <<>> THEN <<>>
    ELSE (IF Head(text) = old THEN new ELSE <<Head(text)>>) \o Replace(Tail(text), old, new)

\* image.replace('/', '__').replace(':', '__')
SafeName(image) == Replace(Replace(image, "/", <<"_", "_">>), ":", <<"_", "_">>)

\* The SBOM file name of an image: the safe name + '.json' (the extension is
\* one item of the text).
SbomFileName(image) == SafeName(image) \o <<".json">>

\* normalize_image_name: re.sub(r'[:|@].*$', '', image), the text before the
\* first ':', '|' or '@'.
RECURSIVE normalize_image_name(_)
normalize_image_name(image) ==
    IF image = <<>> \/ Head(image) \in {":", "|", "@"} THEN <<>>
    ELSE <<Head(image)>> \o normalize_image_name(Tail(image))

\* str.startswith
StartsWith(text, prefix) ==
    /\ Len(prefix) <= Len(text)
    /\ SubSeq(text, 1, Len(prefix)) = prefix

\* str.split('__'): cut at every '__', from the left; part is the text read
\* since the last cut.
RECURSIVE SplitFrom(_, _)
SplitFrom(text, part) ==
    IF text = <<>> THEN <<part>>
    ELSE IF Len(text) >= 2 /\ text[1] = "_" /\ text[2] = "_"
    THEN <<part>> \o SplitFrom(SubSeq(text, 3, Len(text)), <<>>)
    ELSE SplitFrom(Tail(text), Append(part, Head(text)))

Split(text) == SplitFrom(text, <<>>)

\* sep.join(parts)
RECURSIVE Join(_, _)
Join(parts, sep) ==
    IF parts = <<>> THEN <<>>
    ELSE IF Len(parts) = 1 THEN parts[1]
    ELSE parts[1] \o sep \o Join(Tail(parts), sep)

None == <<>>

\* The files of a directory: the names that have a file.
Files(dir) == {name \in DOMAIN dir : dir[name].exists}

\* matching_files: the *.json files whose name starts with the base pattern + '__'.
matching_files(current_image, acr_sbom_dir) ==
    LET base_image == normalize_image_name(current_image)
        base_pattern == Replace(Replace(base_image, "/", <<"_", "_">>), ":", <<"_", "_">>)
    IN  { f \in Files(acr_sbom_dir) :
            /\ f[Len(f)] = ".json"
            /\ StartsWith(f, base_pattern \o <<"_", "_">>) }

\* The image name made from the chosen file: registry/imagename:tag, or None
\* when the stem has fewer than three parts.
ImageOfFile(chosen_file) ==
    LET filename == SubSeq(chosen_file, 1, Len(chosen_file) - 1)
        parts == Split(filename)
        n == Len(parts)
    IN  IF n >= 3
        THEN parts[1] \o <<"/">> \o Join(SubSeq(parts, 2, n - 1), <<"/">>) \o <<":">> \o parts[n]
        ELSE None

\* find_acr_image_version: what the call can return.  matching_files[0] is the
\* first file of the directory listing, and the listing has no fixed order.
find_acr_image_version(current_image, acr_sbom_dir) ==
    IF matching_files(current_image, acr_sbom_dir) = {}
    THEN {None}
    ELSE {ImageOfFile(f) : f \in matching_files(current_image, acr_sbom_dir)}

\* load_sbom_vulnerabilities: the ids of the document, the empty set for a file
\* that is not there or is not JSON.
load_sbom_vulnerabilities(dir, name) ==
    IF name \in Files(dir) /\ dir[name].ok THEN dir[name].ids ELSE {}

\* compare_image_vulnerabilities: fixed_vulns = current_vulns - latest_vulns.
compare_image_vulnerabilities(current_dir, current_sbom, latest_dir, latest_sbom) ==
    load_sbom_vulnerabilities(current_dir, current_sbom)
        \ load_sbom_vulnerabilities(latest_dir, latest_sbom)

CheckManually == <<"Check Manually">>

\* The images of the rows: the keys of image_vulns.
ImagesOf(data) == {data[i].Image : i \in 1..Len(data)}

\* What acr_image can be for an image of the loop; None where the loop goes on
\* before it asks for one (no SBOM file of the image).
AcrChoices(image, current_dir, latest_dir) ==
    IF SbomFileName(image) \notin Files(current_dir)
    THEN {None}
    ELSE find_acr_image_version(image, latest_dir)

\* fixed_vulns of an image of the loop, {} where the loop goes on before the
\* comparison (no acr_image, no SBOM file of the acr_image).
FixedVulns(image, acr_image, current_dir, latest_dir) ==
    IF \/ SbomFileName(image) \notin Files(current_dir)
       \/ acr_image = None
       \/ SbomFileName(acr_image) \notin Files(latest_dir)
    THEN {}
    ELSE compare_image_vulnerabilities(current_dir, SbomFileName(image),
                                       latest_dir, SbomFileName(acr_image))

\* A faulty IsUpdated: the Fixed_Version of the row is not looked at.
IsUpdated_AnyFixedVersion(row, fixed_vulns) == row.Vulnerability_ID \in fixed_vulns

\* "if vuln_id in fixed_vulns and row['Fixed_Version'] == 'Check Manually'"
IsUpdated(row, fixed_vulns) ==
    row.Vulnerability_ID \in fixed_vulns /\ row.Fixed_Version = CheckManually

\* A row after the loop over the rows of its image.
UpdatedRow(row, acr_image, fixed_vulns) ==
    IF IsUpdated(row, fixed_vulns)
    THEN [row EXCEPT !.Fixed_Version = acr_image]
    ELSE row

\* fixed_vulns of every image of the rows, with acr_image as chosen.
FixedOf(data, pick, current_dir, latest_dir) ==
    [ image \in ImagesOf(data) |->
        FixedVulns(image, pick[image], current_dir, latest_dir) ]

\* The rows after the loop over the images.
UpdatedRows(data, pick, fixed) ==
    [ i \in 1..Len(data) |->
        UpdatedRow(data[i], pick[data[i].Image], fixed[data[i].Image]) ]

\* updated_count after the loop: one for each row that was updated.
UpdatedCount(data, fixed) ==
    Cardinality({ i \in 1..Len(data) : IsUpdated(data[i], fixed[data[i].Image]) })

\* The choices of acr_image for the images of the rows, one for each image.
RECURSIVE Picks(_, _, _)
Picks(images, current_dir, latest_dir) ==
    IF images = {} THEN {<<>>}
    ELSE LET image == CHOOSE x \in images : TRUE
         IN  { (image :> acr) @@ rest :
                 acr \in AcrChoices(image, current_dir, latest_dir),
                 rest \in Picks(images \ {image}, current_dir, latest_dir) }

\* The inputs of the resolver.
UfvImages == { <<"r", "/", "a", ":", "1">>, <<"r", "/", "a", "/", "s", ":", "1">> }
CandidateImages == { <<"r", "/", "a", ":", "2">>, <<"r", "/", "a", "/", "s", ":", "2">> }
VulnIds == {"A", "B"}
FixedVersions == { CheckManually, <<"1", ".", "2">> }

UfvRowsUniverse ==
    { [Image |-> i, Vulnerability_ID |-> v, Fixed_Version |-> f, Status |-> "Pending"] :
        i \in UfvImages, v \in VulnIds, f \in FixedVersions }

RECURSIVE UfvRowSeqs(_)
UfvRowSeqs(n) ==
    IF n = 0 THEN {<<>>}
    ELSE UfvRowSeqs(n - 1) \cup
         { Append(t, r) : t \in {u \in UfvRowSeqs(n - 1) : Len(u) = n - 1}, r \in UfvRowsUniverse }

NoSbom == [exists |-> FALSE, ok |-> TRUE, ids |-> {}]
SbomOf(S) == [exists |-> TRUE, ok |-> TRUE, ids |-> S]
\* A file that is there and is not JSON.
BadSbom == [exists |-> TRUE, ok |-> FALSE, ids |-> {}]

\* The SBOM directories of the scan: a file per scanned image, named by
\* the safe name of the image (az_vuln_cli.py, safe_filename).  A baseline
\* image that was scanned has findings; a candidate may have none.
CurrentDirs == [ {SbomFileName(i) : i \in UfvImages} -> {NoSbom, SbomOf({"A"}), SbomOf(VulnIds)} ]
LatestDirs == [ {SbomFileName(i) : i \in CandidateImages} ->
                    {NoSbom, BadSbom} \cup {SbomOf(S) : S \in SUBSET VulnIds} ]

UfvIdle ==
    /\ tracking_csv = NoFile
    /\ current_sbom_dir = <<>>
    /\ latest_sbom_dir = <<>>
    /\ rows = <<>>
    /\ acr_images = <<>>
    /\ updated_count = 0
    /\ output_csv = NoFile
    /\ ufv_pc = "idle"

\* update_fixed_versions: read the rows, go through the images, write the
\* output "if updated_count > 0".
UfvRun ==
    /\ ufv_pc = "start"
    /\ LET data == tracking_csv.rows IN
       \E pick \in Picks(ImagesOf(data), current_sbom_dir, latest_sbom_dir) :
         LET fixed == FixedOf(data, pick, current_sbom_dir, latest_sbom_dir) IN
         /\ acr_images' = pick
         /\ rows' = UpdatedRows(data, pick, fixed)
         /\ updated_count' = UpdatedCount(data, fixed)
         /\ output_csv' = IF UpdatedCount(data, fixed) > 0
                          THEN [exists |-> TRUE, rows |-> UpdatedRows(data, pick, fixed)]
                          ELSE output_csv
    /\ ufv_pc' = "done"
    /\ UNCHANGED <<tracking_csv, current_sbom_dir, latest_sbom_dir>>
    /\ UNCHANGED <<cmp_vars, ext_vars, sum_vars, os_vars, gdc_vars, brk_vars, rerun_vars, cv_vars>>

(***************************************************************************)
(* generate_remediation_csv.py: the vulnerability record extractor.        *)
(*                                                                         *)
(* A JSON object is a record; a key the object may lack holds the list of  *)
(* its value, <<v>>, or the empty list when the key is not there.  A key   *)
(* read with a default of [] holds the list itself.  A score is a JSON     *)
(* number with one decimal, kept in tenths.                                *)
(***************************************************************************)
LowerLetters == <<"a", "b", "c", "d", "e", "f", "g", "h", "i", "j", "k", "l", "m",
                  "n", "o", "p", "q", "r", "s", "t", "u", "v", "w", "x", "y", "z">>
UpperLetters == <<"A", "B", "C", "D", "E", "F", "G", "H", "I", "J", "K", "L", "M",
                  "N", "O", "P", "Q", "R", "S", "T", "U", "V", "W", "X", "Y", "Z">>

IsLower(c) == \E i \in 1..26 : LowerLetters[i] = c
IsUpper(c) == \E i \in 1..26 : UpperLetters[i] = c
ToLower(c) == IF IsUpper(c) THEN LowerLetters[CHOOSE i \in 1..26 : UpperLetters[i] = c] ELSE c
ToUpper(c) == IF IsLower(c) THEN UpperLetters[CHOOSE i \in 1..26 : LowerLetters[i] = c] ELSE c

\* str.lower()
lower(text) == [i \in 1..Len(text) |-> ToLower(text[i])]

\* str.title(): a letter after a letter is lowered, any other letter is raised.
title(text) ==
    [i \in 1..Len(text) |->
        IF i > 1 /\ (IsLower(text[i - 1]) \/ IsUpper(text[i - 1]))
        THEN ToLower(text[i])
        ELSE ToUpper(text[i])]

\* "sub in text"
Contains(text, sub) ==
    \E j \in 1..(Len(text) - Len(sub) + 1) : SubSeq(text, j, j + Len(sub) - 1) = sub

\* str.split(sep) for a one-character sep; part is the text read since the last cut.
RECURSIVE SplitAt(_, _, _)
SplitAt(text, sep, part) ==
    IF text = <<>> THEN <<part>>
    ELSE IF Head(text) = sep THEN <<part>> \o SplitAt(Tail(text), sep, <<>>)
    ELSE SplitAt(Tail(text), sep, Append(part, Head(text)))

\* The texts of the literals of the source.
UnknownText == <<"U", "n", "k", "n", "o", "w", "n">>
FixedWord == <<"f", "i", "x", "e", "d">>
PatchedWord == <<"p", "a", "t", "c", "h", "e", "d">>
PkgColon == <<"p", "k", "g", ":">>

\* d.get(key, default)
Get(value, default) == IF value = <<>> THEN default ELSE value[1]

\* extract_image_name: sbom_data["metadata"]["component"]["name"], or "Unknown Image".
extract_image_name(sbom_data) == Get(sbom_data.image, <<"Unknown Image">>)

\* get_package_info: the first component with the bom-ref, or the defaults.
RECURSIVE get_package_info(_, _)
get_package_info(components, bom_ref) ==
    IF components = <<>>
    THEN [name |-> UnknownText, version |-> UnknownText, type |-> UnknownText]
    ELSE IF Head(components).bom_ref = <<bom_ref>>
    THEN [name |-> Get(Head(components).name, UnknownText),
          version |-> Get(Head(components).version, UnknownText),
          type |-> Get(Head(components).type, UnknownText)]
    ELSE get_package_info(Tail(components), bom_ref)

IsDigit(c) == c \in Range(DigitChar)
IsDigitOrDot(c) == IsDigit(c) \/ c = "."

\* The longest run of characters of a kind that starts at position j.
RECURSIVE RunEnd(_, _, _)
RunEnd(text, j, digits_only) ==
    IF j <= Len(text) /\ (IF digits_only THEN IsDigit(text[j]) ELSE IsDigitOrDot(text[j]))
    THEN RunEnd(text, j + 1, digits_only)
    ELSE j

\* re.search(r'(\d+\.[\d\.]+)', url): the leftmost match, each part as long
\* as it can be; the list of group(1), empty when nothing matches.
MatchAt(url, j) ==
    LET d == RunEnd(url, j, TRUE)
    IN  /\ d > j
        /\ d + 1 <= Len(url)
        /\ url[d] = "."
        /\ IsDigitOrDot(url[d + 1])

version_match(url) ==
    IF \E j \in 1..Len(url) : MatchAt(url, j)
    THEN LET j == CHOOSE k \in 1..Len(url) :
                      MatchAt(url, k) /\ \A m \in 1..(k - 1) : ~MatchAt(url, m)
             d == RunEnd(url, j, TRUE)
         IN  <<SubSeq(url, j, RunEnd(url, d + 1, FALSE) - 1)>>
    ELSE <<>>

\* "fixed" in status.lower() or "patched" in status.lower()
IsFixStatus(status) ==
    Contains(lower(status), FixedWord) \/ Contains(lower(status), PatchedWord)

\* The versions added to fixed_versions by the version entries of the affects.
AffectVersions(vulnerability) ==
    UNION { { Get(affect.versions[v].version, <<>>) :
                v \in { w \in 1..Len(affect.versions) :
                          IsFixStatus(Get(affect.versions[w].status, <<>>)) } } :
            affect \in Range(vulnerability.affects) }

\* The versions added to fixed_versions by the advisories.
AdvisoryVersions(vulnerability) ==
    UNION { Range(version_match(Get(advisory.url, <<>>))) :
            advisory \in { a \in Range(vulnerability.advisories) :
                             Contains(lower(Get(a.url, <<>>)), FixedWord) } }

\* The elements of a set of texts in the order the interpreter lists them:
\* hash_order is the order of this run over all texts.
Listed(S, hash_order) ==
    LET In(x) == x \in S IN SelectSeq(hash_order, In)

\* sorted(list) for a list of texts.
RECURSIVE sorted(_)
sorted(list) ==
    IF list = <<>> THEN <<>>
    ELSE LET rest == sorted(SubSeq(list, 1, Len(list) - 1))
             x == list[Len(list)]
             Before(y) == ~StrLess(x, y)
             After(y) == StrLess(x, y)
         IN  SelectSeq(rest, Before) \o <<x>> \o SelectSeq(rest, After)

\* A faulty SortedVersions: the versions are joined in the order they are listed in.
SortedVersions_AsListed(fixed_versions, hash_order) == Listed(fixed_versions, hash_order)

\* sorted(fixed_versions)
SortedVersions(fixed_versions, hash_order) == sorted(Listed(fixed_versions, hash_order))

\* extract_fixed_version
extract_fixed_version(vulnerability, hash_order) ==
    LET fixed_versions == AffectVersions(vulnerability) \cup AdvisoryVersions(vulnerability)
    IN  IF fixed_versions # {}
        THEN Join(SortedVersions(fixed_versions, hash_order), <<", ">>)
        ELSE CheckManually

\* str(score) for a score in tenths: "7.5" for 75.
ScoreText(score) == DecStr(score \div 10) \o <<".">> \o DecStr(score % 10)

\* The loop over the ratings: <<severity, cvss_score>> when it ends.
RECURSIVE RatingLoop(_, _, _)
RatingLoop(ratings, severity, cvss_score) ==
    IF ratings = <<>> THEN <<severity, cvss_score>>
    ELSE LET rating == Head(ratings)
             sev == IF Get(rating.severity, <<>>) # <<>>
                    THEN title(rating.severity[1])
                    ELSE severity
         IN  IF Get(rating.score, 0) # 0
             THEN <<sev, ScoreText(rating.score[1])>>
             ELSE RatingLoop(Tail(ratings), sev, cvss_score)

IsWhite(c) == c \in {" ", "\n"}

\* str.strip()
RECURSIVE strip(_)
strip(text) ==
    IF text = <<>> THEN <<>>
    ELSE IF IsWhite(Head(text)) THEN strip(Tail(text))
    ELSE IF IsWhite(text[Len(text)]) THEN strip(SubSeq(text, 1, Len(text) - 1))
    ELSE text

\* re.sub(r'\s+', ' ', text)
RECURSIVE CollapseWhite(_)
CollapseWhite(text) ==
    IF text = <<>> THEN <<>>
    ELSE IF IsWhite(Head(text))
    THEN IF Len(text) > 1 /\ IsWhite(text[2])
         THEN CollapseWhite(Tail(text))
         ELSE <<" ">> \o CollapseWhite(Tail(text))
    ELSE <<Head(text)>> \o CollapseWhite(Tail(text))

\* description: cleaned, and cut to 200 characters + "..." when longer.
Description(vuln) ==
    LET clean_description == CollapseWhite(strip(Get(vuln.description, <<>>)))
    IN  IF Len(clean_description) > 200
        THEN SubSeq(clean_description, 1, 200) \o <<".", ".", ".">>
        ELSE clean_description

\* package_info of an affect: from the component table, or from the reference
\* itself when the table gives no name and the reference holds "pkg:".
PackageInfo(components, package_ref) ==
    LET package_info == get_package_info(components, package_ref)
        parts == SplitAt(package_ref, "/", <<>>)
        name_version == SplitAt(parts[Len(parts)], "@", <<>>)
    IN  IF /\ package_info.name = UnknownText
           /\ package_ref # <<>>
           /\ Contains(package_ref, PkgColon)
           /\ Len(parts) >= 2
        THEN [package_info EXCEPT
                 !.name = name_version[1],
                 !.version = IF Len(name_version) > 1
                             THEN SplitAt(name_version[2], "?", <<>>)[1]
                             ELSE package_info.version]
        ELSE package_info

\* csv_row of a finding and one of its affects.
CsvRow(sbom_data, vuln, affect, hash_order) ==
    LET package_info == PackageInfo(sbom_data.components, Get(affect.ref, <<>>))
        rated == RatingLoop(vuln.ratings, UnknownText, UnknownText)
    IN  [Image |-> extract_image_name(sbom_data),
         Vulnerability_ID |-> Get(vuln.id, "Unknown"),
         Package_Name |-> package_info.name,
         Current_Version |-> package_info.version,
         Package_Type |-> package_info.type,
         Severity |-> rated[1],
         CVSS_Score |-> rated[2],
         Fixed_Version |-> extract_fixed_version(vuln, hash_order),
         Description |-> Description(vuln),
         Status |-> "Pending"]

\* A faulty RowsOfFinding: a row for the first affect only.
RowsOfFinding_FirstAffectOnly(sbom_data, vuln, hash_order) ==
    [a \in 1..(IF vuln.affects = <<>> THEN 0 ELSE 1) |->
        CsvRow(sbom_data, vuln, vuln.affects[a], hash_order)]

\* The rows appended for a finding: one for each of its affects.
RowsOfFinding(sbom_data, vuln, hash_order) ==
    [a \in 1..Len(vuln.affects) |-> CsvRow(sbom_data, vuln, vuln.affects[a], hash_order)]

\* A faulty AlreadyProcessed: no finding is skipped.
AlreadyProcessed_Never(vuln_id, processed_vulns) == FALSE

\* "if vuln_id in processed_vulns: continue"
AlreadyProcessed(vuln_id, processed_vulns) == vuln_id \in processed_vulns

\* csv_data after the loop over the findings, before the sort.
RECURSIVE CsvRows(_, _, _, _)
CsvRows(sbom_data, vulnerabilities, processed_vulns, hash_order) ==
    IF vulnerabilities = <<>> THEN <<>>
    ELSE LET vuln == Head(vulnerabilities)
             vuln_id == Get(vuln.id, "Unknown")
         IN  IF AlreadyProcessed(vuln_id, processed_vulns)
             THEN CsvRows(sbom_data, Tail(vulnerabilities), processed_vulns, hash_order)
             ELSE RowsOfFinding(sbom_data, vuln, hash_order)
                      \o CsvRows(sbom_data, Tail(vulnerabilities),
                                 processed_vulns \cup {vuln_id}, hash_order)

CriticalText == <<"C", "r", "i", "t", "i", "c", "a", "l">>
HighText == <<"H", "i", "g", "h">>
MediumText == <<"M", "e", "d", "i", "u", "m">>
LowText == <<"L", "o", "w">>

\* severity_order.get(severity, 4)
severity_order(severity) ==
    IF severity = CriticalText THEN 0
    ELSE IF severity = HighText THEN 1
    ELSE IF severity = MediumText THEN 2
    ELSE IF severity = LowText THEN 3
    ELSE 4

\* x.replace('.', '').isdigit()
IsNumericText(text) ==
    LET NotDot(c) == c # "."
        digits == SelectSeq(text, NotDot)
    IN  digits # <<>> /\ \A i \in 1..Len(digits) : IsDigit(digits[i])

\* float(text), in tenths, of a text with at most one decimal.
FloatTenths(text) ==
    LET parts == SplitAt(text, ".", <<>>)
    IN  10 * ParseInt(parts[1])
          + (IF Len(parts) > 1 /\ parts[2] # <<>> THEN ParseInt(<<parts[2][1]>>) ELSE 0)

\* A faulty RecordKey: the score is not negated, so smaller scores come first.
RecordKey_ScoreAscending(x) ==
    <<severity_order(x.Severity),
      IF IsNumericText(x.CVSS_Score) THEN FloatTenths(x.CVSS_Score) ELSE 0>>

\* The key of csv_data.sort.
RecordKey(x) ==
    <<severity_order(x.Severity),
      IF IsNumericText(x.CVSS_Score) THEN 0 - FloatTenths(x.CVSS_Score) ELSE 0>>

PairLess(k1, k2) == k1[1] < k2[1] \/ (k1[1] = k2[1] /\ k1[2] < k2[2])

\* list.sort(key=...): stable.
RECURSIVE SortRecords(_)
SortRecords(records) ==
    IF records = <<>> THEN <<>>
    ELSE LET rest == SortRecords(SubSeq(records, 1, Len(records) - 1))
             x == records[Len(records)]
             Before(y) == ~PairLess(RecordKey(x), RecordKey(y))
             After(y) == PairLess(RecordKey(x), RecordKey(y))
         IN  SelectSeq(rest, Before) \o <<x>> \o SelectSeq(rest, After)

\* The version texts a document can put into a fixed_versions set, and the
\* orders a run of the interpreter can list them in (the hashes of texts
\* differ from run to run).
VersionTextsOf(sbom_data) ==
    UNION { AffectVersions(vuln) \cup AdvisoryVersions(vuln) :
            vuln \in Range(sbom_data.vulnerabilities) }

RECURSIVE Orderings(_)
Orderings(S) ==
    IF S = {} THEN {<<>>}
    ELSE UNION { { <<x>> \o rest : rest \in Orderings(S \ {x}) } : x \in S }

\* generate_remediation_csv: the rows of one run, sorted.
RemediationRows(sbom_data, hash_order) ==
    SortRecords(CsvRows(sbom_data, sbom_data.vulnerabilities, {}, hash_order))

\* generate_remediation_csv on the document: the rows, and the output file
\* "if csv_data".  ext_runs keeps the rows of every run.
ExtRun ==
    /\ ext_pc = "ready"
    /\ Len(ext_runs) < MaxRuns
    /\ \E hash_order \in Orderings(VersionTextsOf(sbom_file)) :
         /\ csv_data' = RemediationRows(sbom_file, hash_order)
         /\ remediation_csv' = IF RemediationRows(sbom_file, hash_order) # <<>>
                               THEN [exists |-> TRUE,
                                     rows |-> RemediationRows(sbom_file, hash_order)]
                               ELSE remediation_csv
         /\ ext_runs' = Append(ext_runs, RemediationRows(sbom_file, hash_order))
    /\ UNCHANGED <<sbom_file, ext_pc>>
    /\ UNCHANGED <<cmp_vars, ufv_vars, sum_vars, os_vars, gdc_vars, brk_vars, rerun_vars, cv_vars>>

(***************************************************************************)
(* The inputs of the extractor.                                            *)
(***************************************************************************)
V10 == <<"1", ".", "0">>
V12 == <<"1", ".", "2">>
V110 == <<"1", ".", "1", "0">>

\* The component table: one declared component.
Ref1 == <<"r", "1">>
Components ==
    << [bom_ref |-> <<Ref1>>, name |-> << <<"l", "i", "b">> >>,
        version |-> <<V10>>, type |-> << <<"library">> >>] >>

Rating(severity, score) == [severity |-> severity, score |-> score]
VersionInfo(status, version) == [status |-> status, version |-> version]
Affect(ref, versions) == [ref |-> ref, versions |-> versions]
Finding(id, ratings, description, affects, advisories) ==
    [id |-> id, ratings |-> ratings, description |-> description,
     affects |-> affects, advisories |-> advisories]
Document(components, vulnerabilities) ==
    [image |-> << <<"i1">> >>, components |-> components, vulnerabilities |-> vulnerabilities]

high == <<"h", "i", "g", "h">>
critical == <<"C", "R", "I", "T", "I", "C", "A", "L">>
low == <<"l", "o", "w">>
\* CycloneDX also has the severities "info" and "none".
info == <<"i", "n", "f", "o">>

PurlFoo == <<"p", "k", "g", ":", "p", "y", "p", "i", "/", "f", "o", "o", "@", "1", ".", "0">>

\* An affect of a declared component, and one of a package URL that is not
\* declared and has two fixed versions.
AffectDeclared == Affect(<<Ref1>>, <<>>)
AffectPurl ==
    Affect(<<PurlFoo>>, << VersionInfo(<<FixedWord>>, <<V12>>),
                           VersionInfo(<< <<"P", "a", "t", "c", "h", "e", "d">> >>, <<V110>>) >>)

SomeText == <<"x", " ", "\n", "y">>

\* The findings of the documents of SpecExt: with and without an id, with
\* and without ratings and affects.
ExtFindings ==
    { Finding(id, ratings, <<SomeText>>, affects, <<>>) :
        id \in { <<>>, <<"CVE-1">> },
        ratings \in { <<>>,
                      << Rating(<<high>>, <<>>) >>,
                      << Rating(<<high>>, <<75>>) >>,
                      << Rating(<<high>>, <<98>>) >>,
                      << Rating(<<critical>>, <<75>>) >> },
        affects \in { <<>>, <<AffectPurl, AffectDeclared>> } }

\* The lists of at most n elements of a set.
RECURSIVE ListsUpTo(_, _)
ListsUpTo(S, n) ==
    IF n = 0 THEN {<<>>}
    ELSE ListsUpTo(S, n - 1) \cup
         { Append(t, x) : t \in {u \in ListsUpTo(S, n - 1) : Len(u) = n - 1}, x \in S }

ExtIdle ==
    /\ sbom_file = Document(<<>>, <<>>)
    /\ csv_data = <<>>
    /\ remediation_csv = NoFile
    /\ ext_runs = <<>>
    /\ ext_pc = "idle"

ExtInitCommon ==
    /\ csv_data = <<>>
    /\ remediation_csv = NoFile
    /\ ext_runs = <<>>
    /\ ext_pc = "ready"

(***************************************************************************)
(* src/generate_summary.py: the summary of a tracking file, one row for    *)
(* each package.                                                           *)
(***************************************************************************)
\* package_key = f"{row['Package_Name']}@{row['Current_Version']}"
package_key(row) == row.Package_Name \o <<"@">> \o row.Current_Version

\* The keys of package_groups, in the order the loop over data inserts them.
RECURSIVE package_groups(_)
package_groups(data) ==
    IF data = <<>> THEN <<>>
    ELSE LET before == package_groups(SubSeq(data, 1, Len(data) - 1))
             key == package_key(data[Len(data)])
         IN  IF \E i \in 1..Len(before) : before[i] = key THEN before
             ELSE Append(before, key)

\* package_groups[key]: the rows filed under a key, in the order of data.
GroupOf(data, key) ==
    LET Filed(row) == package_key(row) = key IN SelectSeq(data, Filed)

\* severity_priority.get(x, 4)
severity_priority(x) ==
    IF x = CriticalText THEN 0
    ELSE IF x = HighText THEN 1
    ELSE IF x = MediumText THEN 2
    ELSE IF x = LowText THEN 3
    ELSE 4

\* min(severities, key=...): the first of the severities of the least priority number.
highest_severity(group) ==
    group[CHOOSE i \in 1..Len(group) :
            /\ \A j \in 1..Len(group) :
                   severity_priority(group[i].Severity) <= severity_priority(group[j].Severity)
            /\ \A j \in 1..(i - 1) :
                   severity_priority(group[j].Severity) > severity_priority(group[i].Severity)
         ].Severity

\* max(cvss_scores) if cvss_scores else 0, in tenths.
max_cvss(group) ==
    LET cvss_scores == { FloatTenths(group[i].CVSS_Score) :
                         i \in {j \in 1..Len(group) : IsNumericText(group[j].CVSS_Score)} }
    IN  IF cvss_scores = {} THEN 0
        ELSE CHOOSE m \in cvss_scores : \A s \in cvss_scores : s <= m

\* A faulty FixedVersionsOf: a blank value is kept.
FixedVersionsOf_BlankKept(group) ==
    { group[i].Fixed_Version :
        i \in {j \in 1..Len(group) : group[j].Fixed_Version # CheckManually} }

\* The set fixed_versions of a group.
FixedVersionsOf(group) ==
    { group[i].Fixed_Version :
        i \in {j \in 1..Len(group) : /\ group[j].Fixed_Version # CheckManually
                                     /\ strip(group[j].Fixed_Version) # <<>>} }

CommaSpace == <<",", " ">>

\* fixed_version_str
fixed_version_str(group, hash_order) ==
    IF FixedVersionsOf(group) # {}
    THEN Join(sorted(Listed(FixedVersionsOf(group), hash_order)), CommaSpace)
    ELSE CheckManually

\* The keys of vuln_counts, in the order the loop over the group inserts them.
RECURSIVE SeveritiesOf(_)
SeveritiesOf(group) ==
    IF group = <<>> THEN <<>>
    ELSE LET before == SeveritiesOf(SubSeq(group, 1, Len(group) - 1))
             sev == group[Len(group)].Severity
         IN  IF \E i \in 1..Len(before) : before[i] = sev THEN before
             ELSE Append(before, sev)

\* vuln_counts[sev]
vuln_counts(group, sev) == Cardinality({i \in 1..Len(group) : group[i].Severity = sev})

\* A faulty vuln_summary: no colon between a severity and its count.
vuln_summary_NoColon(group) ==
    LET sevs == sorted(SeveritiesOf(group))
    IN  Join([i \in 1..Len(sevs) |->
                sevs[i] \o <<" ">> \o DecStr(vuln_counts(group, sevs[i]))],
             CommaSpace)

\* vuln_summary: "Critical: 1, High: 2", the severities in the order of sorted().
vuln_summary(group) ==
    LET sevs == sorted(SeveritiesOf(group))
    IN  Join([i \in 1..Len(sevs) |->
                sevs[i] \o <<":", " ">> \o DecStr(vuln_counts(group, sevs[i]))],
             CommaSpace)

\* 'High' if highest_severity in ['Critical', 'High'] else 'Medium' if ... else 'Low'
Priority(severity) ==
    IF severity \in {CriticalText, HighText} THEN HighText
    ELSE IF severity = MediumText THEN MediumText
    ELSE LowText

\* The row of summary_data of a group.
SummaryRow(group, hash_order) ==
    [Image |-> group[1].Image,
     Package_Name |-> group[1].Package_Name,
     Current_Version |-> group[1].Current_Version,
     Highest_Severity |-> highest_severity(group),
     Max_CVSS_Score |-> IF max_cvss(group) > 0 THEN ScoreText(max_cvss(group)) ELSE UnknownText,
     Vulnerability_Count |-> Len(group),
     Severity_Breakdown |-> vuln_summary(group),
     Fixed_Version |-> fixed_version_str(group, hash_order),
     Priority |-> Priority(highest_severity(group)),
     Status |-> <<"Not Started">>]

\* priority_order.get(x, 3)
priority_order(x) ==
    IF x = HighText THEN 0
    ELSE IF x = MediumText THEN 1
    ELSE IF x = LowText THEN 2
    ELSE 3

\* A faulty SummaryKey: the score is not negated, so smaller scores come first.
SummaryKey_ScoreAscending(x) ==
    <<priority_order(x.Priority),
      severity_order(x.Highest_Severity),
      IF x.Max_CVSS_Score # UnknownText THEN FloatTenths(x.Max_CVSS_Score) ELSE 0>>

\* The key of summary_data.sort.
SummaryKey(x) ==
    <<priority_order(x.Priority),
      severity_order(x.Highest_Severity),
      IF x.Max_CVSS_Score # UnknownText THEN 0 - FloatTenths(x.Max_CVSS_Score) ELSE 0>>

TripleLess(k1, k2) ==
    \/ k1[1] < k2[1]
    \/ k1[1] = k2[1] /\ k1[2] < k2[2]
    \/ k1[1] = k2[1] /\ k1[2] = k2[2] /\ k1[3] < k2[3]

\* summary_data.sort(key=...): stable.
RECURSIVE SortSummary(_)
SortSummary(summary) ==
    IF summary = <<>> THEN <<>>
    ELSE LET rest == SortSummary(SubSeq(summary, 1, Len(summary) - 1))
             x == summary[Len(summary)]
             Before(y) == ~TripleLess(SummaryKey(x), SummaryKey(y))
             After(y) == TripleLess(SummaryKey(x), SummaryKey(y))
         IN  SelectSeq(rest, Before) \o <<x>> \o SelectSeq(rest, After)

\* generate_summary: the rows of the groups in the order of their keys, sorted.
SummaryData(data, hash_order) ==
    LET keys == package_groups(data)
    IN  SortSummary([i \in 1..Len(keys) |-> SummaryRow(GroupOf(data, keys[i]), hash_order)])

\* The Fixed_Version texts of a tracking file.
FixedTextsOf(data) == {data[i].Fixed_Version : i \in 1..Len(data)}

\* generate_summary on a tracking file that is not there: the error is
\* printed and nothing is written.
SumMissing ==
    /\ sum_pc = "ready"
    /\ ~input_csv.exists
    /\ sum_pc' = "done"
    /\ UNCHANGED <<input_csv, summary_data, summary_csv>>
    /\ UNCHANGED <<cmp_vars, ufv_vars, ext_vars, os_vars, gdc_vars, brk_vars, rerun_vars, cv_vars>>

\* generate_summary on a tracking file: the summary is written, be it empty.
SumRun ==
    /\ sum_pc = "ready"
    /\ input_csv.exists
    /\ \E hash_order \in Orderings(FixedTextsOf(input_csv.rows)) :
         /\ summary_data' = SummaryData(input_csv.rows, hash_order)
         /\ summary_csv' = [exists |-> TRUE, rows |-> SummaryData(input_csv.rows, hash_order)]
    /\ sum_pc' = "done"
    /\ UNCHANGED input_csv
    /\ UNCHANGED <<cmp_vars, ufv_vars, ext_vars, os_vars, gdc_vars, brk_vars, rerun_vars, cv_vars>>

\* The rows of a tracking file the summary reads: the packages, and what a
\* finding carries.  "a@b" with "c" and "a" with "b@c" are two packages whose
\* names and versions join to the same text around an "@".
SumPairs ==
    { <<(<<"a">>), (<<"c">>)>>,
      <<(<<"a", "@", "b">>), (<<"c">>)>>,
      <<(<<"a">>), (<<"b", "@", "c">>)>> }

SumFindings ==
    { [Image |-> "i1", Severity |-> CriticalText, CVSS_Score |-> ScoreText(98), Fixed_Version |-> V12],
      [Image |-> "i1", Severity |-> HighText, CVSS_Score |-> ScoreText(75), Fixed_Version |-> CheckManually],
      [Image |-> "i1", Severity |-> HighText, CVSS_Score |-> ScoreText(98), Fixed_Version |-> V110],
      [Image |-> "i1", Severity |-> MediumText, CVSS_Score |-> UnknownText, Fixed_Version |-> V12],
      [Image |-> "i2", Severity |-> LowText, CVSS_Score |-> ScoreText(75), Fixed_Version |-> <<" ">>],
      [Image |-> "i1", Severity |-> UnknownText, CVSS_Score |-> UnknownText, Fixed_Version |-> CheckManually] }

SumRecords ==
    { [Image |-> f.Image, Package_Name |-> p[1], Current_Version |-> p[2],
       Severity |-> f.Severity, CVSS_Score |-> f.CVSS_Score, Fixed_Version |-> f.Fixed_Version] :
        p \in SumPairs, f \in SumFindings }

SumIdle ==
    /\ input_csv = NoFile
    /\ summary_data = <<>>
    /\ summary_csv = NoFile
    /\ sum_pc = "idle"

(***************************************************************************)
(* src/extract_os_from_sboms.py: the operating system of the images, read  *)
(* from the SBOM files of a directory.                                     *)
(***************************************************************************)
\* What a *.json file of the directory can be: a file that cannot be opened
\* (open raises), a file that is not JSON (json.load raises), a JSON text
\* that is no object, such as a list (sbom_data.get raises), and an SBOM
\* document with the name of its image, if it has one, and its components.
Unreadable == [readable |-> FALSE, json |-> FALSE, object |-> FALSE, name |-> <<>>, components |-> <<>>]
NotJson == [readable |-> TRUE, json |-> FALSE, object |-> FALSE, name |-> <<>>, components |-> <<>>]
NotObject == [readable |-> TRUE, json |-> TRUE, object |-> FALSE, name |-> <<>>, components |-> <<>>]
SbomDocument(name, components) ==
    [readable |-> TRUE, json |-> TRUE, object |-> TRUE, name |-> name, components |-> components]

OsComponent(type, name, version) == [type |-> type, name |-> name, version |-> version]

\* The body of the try block raises on this file.
Raises(doc) == ~doc.readable \/ ~doc.json \/ ~doc.object

\* The first component of type 'operating-system', as a list of at most one.
FirstOs(components) ==
    LET os == {i \in 1..Len(components) : components[i].type = "operating-system"}
    IN  IF os = {} THEN <<>>
        ELSE <<components[CHOOSE i \in os : \A j \in os : i <= j]>>

\* extract_os_from_sbom: the result as a list of one, the empty list for None.
extract_os_from_sbom(dir, sbom_file_path) ==
    LET doc == dir[sbom_file_path]
        found == FirstOs(doc.components)
    IN  IF Raises(doc) THEN <<>>
        ELSE << [image |-> Get(doc.name, "unknown"),
                 os_family |-> IF found = <<>> THEN "unknown" ELSE Get(found[1].name, "unknown"),
                 os_version |-> IF found = <<>> THEN "unknown" ELSE Get(found[1].version, "unknown"),
                 eosl |-> "unknown",
                 sbom_file |-> sbom_file_path] >>

\* A faulty find_sbom_files: the files are taken in the order glob lists them in.
find_sbom_files_AsListed(dir, glob_order) == Listed(DOMAIN dir, glob_order)

\* find_sbom_files: sorted(glob.glob(...)).  All paths begin with the
\* directory, so their order is the order of the file names.
find_sbom_files(dir, glob_order) == sorted(Listed(DOMAIN dir, glob_order))

\* The loop of process_sbom_directory: "if os_info: results.append(os_info)".
RECURSIVE OsResults(_, _)
OsResults(dir, sbom_files) ==
    IF sbom_files = <<>> THEN <<>>
    ELSE extract_os_from_sbom(dir, Head(sbom_files)) \o OsResults(dir, Tail(sbom_files))

\* process_sbom_directory
process_sbom_directory(dir, glob_order) == OsResults(dir, find_sbom_files(dir, glob_order))

\* process_sbom_directory on the directory.
OsRun ==
    /\ os_pc = "ready"
    /\ \E glob_order \in Orderings(DOMAIN sbom_dir) :
         os_results' = process_sbom_directory(sbom_dir, glob_order)
    /\ os_pc' = "done"
    /\ UNCHANGED sbom_dir
    /\ UNCHANGED <<cmp_vars, ufv_vars, ext_vars, sum_vars, gdc_vars, brk_vars, rerun_vars, cv_vars>>

\* The files a directory can hold.
DotJson == <<".", "j", "s", "o", "n">>
OsNames == << <<"a">> \o DotJson, <<"a", "b">> \o DotJson, <<"b">> \o DotJson,
              <<"c">> \o DotJson, <<"a", "c">> \o DotJson >>
OsFileNames == {OsNames[i] : i \in 1..MaxFiles}
OsDocuments ==
    { Unreadable, NotJson, NotObject,
      SbomDocument(<<>>, <<>>),
      SbomDocument(<<"i1">>, << OsComponent("operating-system", <<"alpine">>, <<"3.18">>) >>),
      SbomDocument(<<"i2">>, << OsComponent("library", <<"foo">>, <<"1.0">>),
                                OsComponent("operating-system", <<"debian">>, <<>>) >>) }
OsDirectories == UNION { [S -> OsDocuments] : S \in SUBSET OsFileNames }

OsIdle ==
    /\ sbom_dir = <<>>
    /\ os_results = <<>>
    /\ os_pc = "idle"

(***************************************************************************)
(* src/az_vuln_cli.py, _generate_detailed_comparison: the comparison of    *)
(* production and of dev with latest, over the files of reports/.          *)
(*                                                                         *)
(* reports.production says what reports/production is: "absent", "dir" (a  *)
(* directory with the production summary), "link_prod" or "link_dev" (a    *)
(* symlink to prod or to dev).  A comparison file is "absent" or holds the *)
(* results for "prod" or for "dev".                                        *)
(***************************************************************************)
\* Path('reports/production').exists(): a symlink is followed.
ProductionExists(r) ==
    \/ r.production = "dir"
    \/ r.production = "link_prod" /\ r.prod
    \/ r.production = "link_dev" /\ r.dev

\* The environment whose summary is read as reports/production/vulnerabilities_summary.csv.
ComparedEnv(r) == IF r.production = "link_dev" THEN "dev" ELSE "prod"

have_prod(r) == ProductionExists(r) \/ r.prod
have_dev(r) == r.dev
have_latest(r) == r.latest

\* What a run of compare_vulnerabilities.py or generate_detailed_comparison.py
\* can do: exit with an error, write its file, or end without writing it (no
\* data to compare).
Outcomes == {"fails", "writes", "silent"}

\* "if not Path('reports/production').exists() and Path('reports/prod').exists():
\*  ln -s prod reports/production"
WithProdLink(r) ==
    IF ~ProductionExists(r) /\ r.prod THEN [r EXCEPT !.production = "link_prod"] ELSE r

\* The files after the two scripts have run without an exception.
AfterScripts(r, compare, detailed) ==
    [r EXCEPT !.summary_txt = IF compare = "writes" THEN ComparedEnv(r) ELSE @,
              !.detailed_csv = IF detailed = "writes" THEN ComparedEnv(r) ELSE @]

\* cp of the two comparison files to their *_prod_backup names, where they exist.
WithFileBackups(r) ==
    [r EXCEPT !.summary_backup = IF r.summary_txt # "absent" THEN r.summary_txt ELSE @,
              !.detailed_backup = IF r.detailed_csv # "absent" THEN r.detailed_csv ELSE @]

\* mv reports/production reports/production_backup, if it exists; ln -s dev reports/production
WithDevLink(r) ==
    IF ProductionExists(r)
    THEN [r EXCEPT !.production_backup = r.production, !.production = "link_dev"]
    ELSE [r EXCEPT !.production = "link_dev"]

\* mv of the two comparison files to their *_dev names, where they exist.
RenamedToDev(r) ==
    [r EXCEPT !.summary_dev = IF r.summary_txt # "absent" THEN r.summary_txt ELSE @,
              !.summary_txt = "absent",
              !.detailed_dev = IF r.detailed_csv # "absent" THEN r.detailed_csv ELSE @,
              !.detailed_csv = "absent"]

\* rm reports/production; mv reports/production_backup reports/production, if
\* there was a reports/production.
ProductionRestored(r, prod_symlink_existed) ==
    IF prod_symlink_existed
    THEN [r EXCEPT !.production = r.production_backup, !.production_backup = "absent"]
    ELSE [r EXCEPT !.production = "absent"]

\* mv of the *_prod_backup files back to their names, where they exist.
FilesRestored(r) ==
    [r EXCEPT !.summary_txt = IF r.summary_backup # "absent" THEN r.summary_backup ELSE @,
              !.summary_backup = "absent",
              !.detailed_csv = IF r.detailed_backup # "absent" THEN r.detailed_backup ELSE @,
              !.detailed_backup = "absent"]

\* Lines 1409-1416: "if not have_latest: return".
GdcStart ==
    /\ gdc_pc = "start"
    /\ gdc_pc' = IF have_latest(reports) THEN "prod" ELSE "done"
    /\ UNCHANGED <<reports, reports_before>>
    /\ UNCHANGED <<cmp_vars, ufv_vars, ext_vars, sum_vars, os_vars, brk_vars, rerun_vars, cv_vars>>

\* Lines 1421-1439: production against latest.  compare_vulnerabilities.py is
\* run with check=True: its failure raises CalledProcessError, which is caught
\* at line 1527, the end of the function.
GdcProd ==
    /\ gdc_pc = "prod"
    /\ IF ~have_prod(reports)
       THEN gdc_pc' = "dev" /\ UNCHANGED reports
       ELSE \E compare \in Outcomes, detailed \in Outcomes :
              IF compare = "fails"
              THEN /\ reports' = WithProdLink(reports)
                   /\ gdc_pc' = "failed"
              ELSE /\ reports' = AfterScripts(WithProdLink(reports), compare, detailed)
                   /\ gdc_pc' = "dev"
    /\ UNCHANGED reports_before
    /\ UNCHANGED <<cmp_vars, ufv_vars, ext_vars, sum_vars, os_vars, brk_vars, rerun_vars, cv_vars>>

\* Lines 1442-1492: dev against latest, with reports/production pointing to dev.
GdcDev ==
    /\ gdc_pc = "dev"
    /\ IF ~have_dev(reports)
       THEN gdc_pc' = "done" /\ UNCHANGED reports
       ELSE LET prod_symlink_existed == ProductionExists(WithFileBackups(reports))
                linked == WithDevLink(WithFileBackups(reports))
            IN  \E compare \in Outcomes, detailed \in Outcomes :
                  IF compare = "fails"
                  THEN /\ reports' = linked
                       /\ gdc_pc' = "failed"
                  ELSE LET ran == AfterScripts(linked, compare, detailed)
                           renamed == IF detailed # "fails" THEN RenamedToDev(ran) ELSE ran
                       IN  /\ reports' = FilesRestored(ProductionRestored(renamed, prod_symlink_existed))
                           /\ gdc_pc' = "done"
    /\ UNCHANGED reports_before
    /\ UNCHANGED <<cmp_vars, ufv_vars, ext_vars, sum_vars, os_vars, brk_vars, rerun_vars, cv_vars>>

\* The files of reports/ before the call: no backup is there, the comparison
\* files of an earlier call hold what their names say.
ReportsBefore ==
    { [production |-> production, production_backup |-> "absent",
       prod |-> prod, dev |-> dev, latest |-> latest,
       summary_txt |-> summary_txt, detailed_csv |-> detailed_csv,
       summary_backup |-> "absent", detailed_backup |-> "absent",
       summary_dev |-> summary_dev, detailed_dev |-> detailed_dev] :
        production \in {"absent", "dir", "link_prod"},
        prod \in BOOLEAN, dev \in BOOLEAN, latest \in BOOLEAN,
        summary_txt \in {"absent", "prod"}, detailed_csv \in {"absent", "prod"},
        summary_dev \in {"absent", "dev"}, detailed_dev \in {"absent", "dev"} }

NoReports ==
    [production |-> "absent", production_backup |-> "absent",
     prod |-> FALSE, dev |-> FALSE, latest |-> FALSE,
     summary_txt |-> "absent", detailed_csv |-> "absent",
     summary_backup |-> "absent", detailed_backup |-> "absent",
     summary_dev |-> "absent", detailed_dev |-> "absent"]

GdcIdle ==
    /\ reports = NoReports
    /\ reports_before = NoReports
    /\ gdc_pc = "idle"

(***************************************************************************)
(* src/generate_detailed_comparison.py, parse_severity_breakdown: the      *)
(* severity counts the comparison reads from a row of a summary file.      *)
(***************************************************************************)
InfoText == <<"I", "n", "f", "o">>
NotAvailable == <<"N", "/", "A">>

\* The keys of counts.
CountNames == {CriticalText, HighText, MediumText, LowText, InfoText, UnknownText}

\* \w, \s
IsWordChar(c) == IsLower(c) \/ IsUpper(c) \/ IsDigit(c) \/ c = "_"

RECURSIVE WordEnd(_, _)
WordEnd(text, j) ==
    IF j <= Len(text) /\ IsWordChar(text[j]) THEN WordEnd(text, j + 1) ELSE j

RECURSIVE SpaceEnd(_, _)
SpaceEnd(text, j) ==
    IF j <= Len(text) /\ IsWhite(text[j]) THEN SpaceEnd(text, j + 1) ELSE j

\* r'(\w+):\s*(\d+)' at position j: the position after the match, 0 when
\* there is no match at j.  Each part is as long as it can be.
BreakdownMatchEnd(text, j) ==
    LET w == WordEnd(text, j)
        s == IF w <= Len(text) /\ text[w] = ":" THEN SpaceEnd(text, w + 1) ELSE 0
        d == IF s > 0 THEN RunEnd(text, s, TRUE) ELSE 0
    IN  IF w > j /\ s > 0 /\ d > s THEN d ELSE 0

\* re.findall from position j on: the pairs (severity, count) of the matches
\* that do not overlap, from the left.
RECURSIVE findall(_, _)
findall(text, j) ==
    IF j > Len(text) THEN <<>>
    ELSE IF BreakdownMatchEnd(text, j) > 0
    THEN << << SubSeq(text, j, WordEnd(text, j) - 1),
               SubSeq(text, SpaceEnd(text, WordEnd(text, j) + 1), BreakdownMatchEnd(text, j) - 1) >> >>
         \o findall(text, BreakdownMatchEnd(text, j))
    ELSE findall(text, j + 1)

\* "for severity, count in matches: if severity in counts: counts[severity] = int(count)"
RECURSIVE CountsOf(_, _)
CountsOf(matches, counts) ==
    IF matches = <<>> THEN counts
    ELSE CountsOf(Tail(matches),
                  IF matches[1][1] \in CountNames
                  THEN [counts EXCEPT ![matches[1][1]] = ParseInt(matches[1][2])]
                  ELSE counts)

\* parse_severity_breakdown
parse_severity_breakdown(severity_breakdown) ==
    IF severity_breakdown \in {<<>>, NotAvailable, UnknownText}
    THEN [sev \in CountNames |-> 0]
    ELSE CountsOf(findall(severity_breakdown, 1), [sev \in CountNames |-> 0])

\* The columns High_Severity_Prod and Critical_Severity_Prod of the row the
\* comparison makes of a row of the summary file (lines 116, 128, 130).
SeverityColumns(prod_row) ==
    [High_Severity |-> DecStr(parse_severity_breakdown(prod_row.Severity_Breakdown)[HighText]),
     Critical_Severity |-> DecStr(parse_severity_breakdown(prod_row.Severity_Breakdown)[CriticalText])]

\* The comparison reads the summary file that generate_summary has written:
\* csv.DictWriter and csv.DictReader hand the text of a column on as it is.
CmpReadBack ==
    /\ brk_pc = "ready"
    /\ sum_pc = "done"
    /\ summary_csv.exists
    /\ severity_columns' = [k \in 1..Len(summary_csv.rows) |-> SeverityColumns(summary_csv.rows[k])]
    /\ brk_pc' = "done"
    /\ UNCHANGED <<cmp_vars, ufv_vars, ext_vars, sum_vars, os_vars, gdc_vars, rerun_vars, cv_vars>>

BrkIdle ==
    /\ severity_columns = <<>>
    /\ brk_pc = "idle"

\* update_fixed_versions once more, on the file the first run has written and
\* the same two directories.  The directories are as they were, so glob lists
\* their files in the same order and acr_image is for every image what it was
\* in the first run.
UfvRerun ==
    /\ rerun_pc = "ready"
    /\ ufv_pc = "done"
    /\ output_csv.exists
    /\ LET data == output_csv.rows
           fixed == FixedOf(data, acr_images, current_sbom_dir, latest_sbom_dir)
       IN  /\ rows_again' = UpdatedRows(data, acr_images, fixed)
           /\ updated_again' = UpdatedCount(data, fixed)
    /\ rerun_pc' = "done"
    /\ UNCHANGED <<cmp_vars, ufv_vars, ext_vars, sum_vars, os_vars, gdc_vars, brk_vars, cv_vars>>

RerunIdle ==
    /\ rows_again = <<>>
    /\ updated_again = 0
    /\ rerun_pc = "idle"

(***************************************************************************)
(* compare_vulnerabilities.py                                              *)
(***************************************************************************)
\* load_vulnerability_data: the rows of the file as a DataFrame.
load_vulnerability_data(file) == file.rows

\* "set(prod_df[prod_pkg_col].tolist())": the Package_Name values of a frame.
prod_packages(prod_df) == { prod_df[i].Package_Name : i \in 1..Len(prod_df) }

latest_packages(latest_df) == { latest_df[i].Package_Name : i \in 1..Len(latest_df) }

\* "fixed_packages = prod_packages - latest_packages", by package name.
fixed_names(prod_df, latest_df) == prod_packages(prod_df) \ latest_packages(latest_df)

\* "new_vulns = latest_packages - prod_packages"
new_vulns(prod_df, latest_df) == latest_packages(latest_df) \ prod_packages(prod_df)

\* compare_vulnerabilities: nothing is reported when a file is missing or a
\* frame is empty; otherwise len(fixed_packages) and len(new_vulns) are
\* printed and written to the summary.
CvRun ==
    /\ cv_pc = "start"
    /\ LET prod_df == load_vulnerability_data(prod_file)
           latest_df == load_vulnerability_data(latest_file)
       IN  IF \/ ~prod_file.exists
              \/ ~latest_file.exists
              \/ prod_df = <<>>
              \/ latest_df = <<>>
           THEN /\ cv_pc' = "skipped"
                /\ UNCHANGED <<cv_fixed, cv_new>>
           ELSE /\ cv_fixed' = Cardinality(fixed_names(prod_df, latest_df))
                /\ cv_new' = Cardinality(new_vulns(prod_df, latest_df))
                /\ cv_pc' = "done"
    /\ UNCHANGED <<cmp_vars, ufv_vars, ext_vars, sum_vars, os_vars, gdc_vars, brk_vars, rerun_vars>>

CvIdle ==
    /\ cv_fixed = 0
    /\ cv_new = 0
    /\ cv_pc = "idle"

CmpInitCommon ==
    /\ all_results = <<>>
    /\ output_file = NoFile
    /\ cmp_pc = "start"

\* The comparison of two summary files, no tracking file at hand.
Init ==
    /\ \E n \in 0..MaxRows, m \in 0..MaxRows :
         /\ n + m <= MaxRows
         /\ prod_file \in SummaryFiles(n)
         /\ latest_file \in SummaryFiles(m)
    /\ prod_tracking_file = NoFile
    /\ CmpInitCommon
    /\ UfvIdle
    /\ ExtIdle
    /\ SumIdle
    /\ OsIdle
    /\ GdcIdle
    /\ BrkIdle
    /\ RerunIdle
    /\ CvIdle

Next == CmpSkip \/ CmpRun

Spec == Init /\ [][Next]_vars

\* The comparison with a tracking file at hand, of summaries of one package each.
InitTrk ==
    /\ prod_file \in SummaryFiles(0) \cup SummaryFiles(1)
    /\ latest_file \in SummaryFiles(0) \cup SummaryFiles(1)
    /\ prod_tracking_file \in TrackingFiles
    /\ CmpInitCommon
    /\ UfvIdle
    /\ ExtIdle
    /\ SumIdle
    /\ OsIdle
    /\ GdcIdle
    /\ BrkIdle
    /\ RerunIdle
    /\ CvIdle

SpecTrk == InitTrk /\ [][Next]_vars

CmpIdle ==
    /\ prod_file = NoFile
    /\ latest_file = NoFile
    /\ prod_tracking_file = NoFile
    /\ all_results = <<>>
    /\ output_file = NoFile
    /\ cmp_pc = "idle"

\* The resolver on a tracking file and two SBOM directories.
InitUfv ==
    /\ tracking_csv \in { [exists |-> TRUE, rows |-> t] : t \in UfvRowSeqs(MaxUfvRows) }
    /\ current_sbom_dir \in CurrentDirs
    /\ latest_sbom_dir \in LatestDirs
    /\ rows = <<>>
    /\ acr_images = <<>>
    /\ updated_count = 0
    /\ output_csv = NoFile
    /\ ufv_pc = "start"
    /\ CmpIdle
    /\ ExtIdle
    /\ SumIdle
    /\ OsIdle
    /\ GdcIdle
    /\ BrkIdle
    /\ RerunIdle
    /\ CvIdle

NextUfv == UfvRun

SpecUfv == InitUfv /\ [][NextUfv]_vars

\* The resolver on images of a registry that is named with its port.
RtImages == { <<"r", ":", "5", "/", "a", ":", "1">>, <<"r", "/", "a", ":", "1">> }
RtCandidates == { <<"r", ":", "5", "/", "a", ":", "2">>, <<"r", "/", "a", ":", "2">> }

RtRows ==
    { [Image |-> i, Vulnerability_ID |-> "A", Fixed_Version |-> CheckManually, Status |-> "Pending"] :
        i \in RtImages }

InitRt ==
    /\ tracking_csv \in { [exists |-> TRUE, rows |-> t] : t \in ListsUpTo(RtRows, MaxUfvRows) }
    /\ current_sbom_dir \in [ {SbomFileName(i) : i \in RtImages} -> {NoSbom, SbomOf({"A"})} ]
    /\ latest_sbom_dir \in [ {SbomFileName(i) : i \in RtCandidates} ->
                                {NoSbom, SbomOf({}), SbomOf({"A"})} ]
    /\ rows = <<>>
    /\ acr_images = <<>>
    /\ updated_count = 0
    /\ output_csv = NoFile
    /\ ufv_pc = "start"
    /\ CmpIdle
    /\ ExtIdle
    /\ SumIdle
    /\ OsIdle
    /\ GdcIdle
    /\ BrkIdle
    /\ RerunIdle
    /\ CvIdle

SpecRt == InitRt /\ [][NextUfv]_vars

\* The resolver run twice, the second time on the output of the first.
InitIdem ==
    /\ tracking_csv \in { [exists |-> TRUE, rows |-> t] : t \in UfvRowSeqs(MaxUfvRows) }
    /\ current_sbom_dir \in CurrentDirs
    /\ latest_sbom_dir \in LatestDirs
    /\ rows = <<>>
    /\ acr_images = <<>>
    /\ updated_count = 0
    /\ output_csv = NoFile
    /\ ufv_pc = "start"
    /\ rows_again = <<>>
    /\ updated_again = 0
    /\ rerun_pc = "ready"
    /\ CmpIdle
    /\ ExtIdle
    /\ SumIdle
    /\ OsIdle
    /\ GdcIdle
    /\ BrkIdle
    /\ CvIdle

NextIdem == UfvRun \/ UfvRerun

SpecIdem == InitIdem /\ [][NextIdem]_vars

\* The two comparisons of the same two summary files, in either order.
InitCv ==
    /\ \E n \in 0..MaxCvRows, m \in 0..MaxCvRows :
         /\ n + m <= MaxCvRows
         /\ prod_file \in SummaryFiles(n)
         /\ latest_file \in SummaryFiles(m)
    /\ prod_tracking_file = NoFile
    /\ CmpInitCommon
    /\ cv_fixed = 0
    /\ cv_new = 0
    /\ cv_pc = "start"
    /\ UfvIdle
    /\ ExtIdle
    /\ SumIdle
    /\ OsIdle
    /\ GdcIdle
    /\ BrkIdle
    /\ RerunIdle

NextCv == CmpSkip \/ CmpRun \/ CvRun

SpecCv == InitCv /\ [][NextCv]_vars

\* The extractor on a document of at most MaxFindings findings.
InitExt ==
    /\ sbom_file \in { Document(Components, v) : v \in ListsUpTo(ExtFindings, MaxFindings) }
    /\ ExtInitCommon
    /\ CmpIdle
    /\ UfvIdle
    /\ SumIdle
    /\ OsIdle
    /\ GdcIdle
    /\ BrkIdle
    /\ RerunIdle
    /\ CvIdle

NextExt == ExtRun

SpecExt == InitExt /\ [][NextExt]_vars

\* The ratings a finding can carry: with and without severity, with and
\* without score.
RatingUniverse ==
    { Rating(severity, score) :
        severity \in { <<>>, <<low>>, <<high>>, <<critical>>, <<info>> },
        score \in { <<>>, <<75>>, <<98>> } }

\* The extractor on a document of one finding with at most MaxRatings ratings.
InitRat ==
    /\ sbom_file \in
         { Document(Components,
                    << Finding(<<"CVE-1">>, ratings, <<SomeText>>, <<AffectDeclared>>, <<>>) >>) :
             ratings \in ListsUpTo(RatingUniverse, MaxRatings) }
    /\ ExtInitCommon
    /\ CmpIdle
    /\ UfvIdle
    /\ SumIdle
    /\ OsIdle
    /\ GdcIdle
    /\ BrkIdle
    /\ RerunIdle
    /\ CvIdle

SpecRat == InitRat /\ [][NextExt]_vars

\* The version entries an affect can carry, and the advisory lists of a finding:
\* a URL with "fixed" and a version, one with "Fixed" and no version, one with
\* a version and no "fixed".
HintUniverse ==
    { VersionInfo(status, version) :
        status \in { <<FixedWord>>, << <<"P", "a", "t", "c", "h", "e", "d">> >>,
                     << <<"a", "f", "f", "e", "c", "t", "e", "d">> >> },
        version \in { <<>>, <<V12>> } }

Advisory(url) == [url |-> url]
UrlFixedVersion == <<"u", "/", "f", "i", "x", "e", "d", "/", "1", ".", "1", "0">>
UrlFixedOnly == <<"u", "/", "F", "i", "x", "e", "d">>
UrlVersionOnly == <<"u", "/", "1", ".", "2">>
AdvisoryLists ==
    { <<>>, << Advisory(<<UrlFixedVersion>>) >>, << Advisory(<<UrlFixedOnly>>) >>,
      << Advisory(<<UrlVersionOnly>>) >> }

\* The extractor on a document of one finding with one affect of at most
\* MaxHints version entries.
InitFix ==
    /\ sbom_file \in
         { Document(Components,
                    << Finding(<<"CVE-1">>, <<>>, <<SomeText>>,
                               << Affect(<<Ref1>>, versions) >>, advisories) >>) :
             versions \in ListsUpTo(HintUniverse, MaxHints),
             advisories \in AdvisoryLists }
    /\ ExtInitCommon
    /\ CmpIdle
    /\ UfvIdle
    /\ SumIdle
    /\ OsIdle
    /\ GdcIdle
    /\ BrkIdle
    /\ RerunIdle
    /\ CvIdle

SpecFix == InitFix /\ [][NextExt]_vars

\* A package URL pkg:pypi/namespace/name@version?params; namespace and params
\* are lists of the text, empty when the URL has none.
Purl(namespace, name, version, params) ==
    PkgColon \o <<"p", "y", "p", "i", "/">>
      \o (IF namespace = <<>> THEN <<>> ELSE namespace[1] \o <<"/">>)
      \o name \o <<"@">> \o version
      \o (IF params = <<>> THEN <<>> ELSE <<"?">> \o params[1])

PurlNamespaces == { <<>>, << <<"n", "s">> >> }
PurlNames == { <<"f", "o", "o">>, <<"b", "a", "r">> }
PurlVersions == { V10, V12 }
\* No params, arch=x, and a params part with a URL in it (the package URL
\* notation leaves the '/' of a qualifier value as it is).
PurlParams ==
    { <<>>, << <<"a", "r", "c", "h", "=", "x">> >>, << <<"u", "r", "l", "=", "h", "/", "f">> >> }

\* The extractor on a document of one finding that affects a package URL the
\* component table does not declare.
InitPurl ==
    /\ sbom_file \in
         { Document(components,
                    << Finding(<<"CVE-1">>, ratings, <<SomeText>>,
                               << Affect(<<Purl(namespace, name, version, params)>>, <<>>) >>,
                               <<>>) >>) :
             components \in { <<>>, Components },
             ratings \in { <<>>, << Rating(<<high>>, <<75>>) >> },
             namespace \in PurlNamespaces, name \in PurlNames,
             version \in PurlVersions, params \in PurlParams }
    /\ ExtInitCommon
    /\ CmpIdle
    /\ UfvIdle
    /\ SumIdle
    /\ OsIdle
    /\ GdcIdle
    /\ BrkIdle
    /\ RerunIdle
    /\ CvIdle

SpecPurl == InitPurl /\ [][NextExt]_vars

\* The summary of a tracking file, or of none.
InitSum ==
    /\ input_csv \in {NoFile} \cup
         { [exists |-> TRUE, rows |-> t] : t \in ListsUpTo(SumRecords, MaxRecords) }
    /\ summary_data = <<>>
    /\ summary_csv = NoFile
    /\ sum_pc = "ready"
    /\ CmpIdle
    /\ UfvIdle
    /\ ExtIdle
    /\ OsIdle
    /\ GdcIdle
    /\ BrkIdle
    /\ RerunIdle
    /\ CvIdle

NextSum == SumMissing \/ SumRun

SpecSum == InitSum /\ [][NextSum]_vars

\* process_sbom_directory on a directory of at most MaxFiles files.
InitOs ==
    /\ sbom_dir \in OsDirectories
    /\ os_results = <<>>
    /\ os_pc = "ready"
    /\ CmpIdle
    /\ UfvIdle
    /\ ExtIdle
    /\ SumIdle
    /\ GdcIdle
    /\ BrkIdle
    /\ RerunIdle
    /\ CvIdle

NextOs == OsRun

SpecOs == InitOs /\ [][NextOs]_vars

\* _generate_detailed_comparison on the files of reports/; a symlink to prod
\* is there only if prod is.
InitGdc ==
    /\ reports \in {r \in ReportsBefore : r.production = "link_prod" => r.prod}
    /\ reports_before = reports
    /\ gdc_pc = "start"
    /\ CmpIdle
    /\ UfvIdle
    /\ ExtIdle
    /\ SumIdle
    /\ OsIdle
    /\ BrkIdle
    /\ RerunIdle
    /\ CvIdle

NextGdc == GdcStart \/ GdcProd \/ GdcDev

SpecGdc == InitGdc /\ [][NextGdc]_vars

\* The summary of a tracking file, read by the comparison.  The file also has
\* records of severity Info, which the extractor makes of the rating "info".
BrkRecords ==
    SumRecords \cup
    { [Image |-> "i1", Package_Name |-> p[1], Current_Version |-> p[2],
       Severity |-> InfoText, CVSS_Score |-> UnknownText, Fixed_Version |-> CheckManually] :
        p \in SumPairs }

InitBrk ==
    /\ input_csv \in {NoFile} \cup
         { [exists |-> TRUE, rows |-> t] : t \in ListsUpTo(BrkRecords, MaxRecords) }
    /\ summary_data = <<>>
    /\ summary_csv = NoFile
    /\ sum_pc = "ready"
    /\ severity_columns = <<>>
    /\ brk_pc = "ready"
    /\ CmpIdle
    /\ UfvIdle
    /\ ExtIdle
    /\ OsIdle
    /\ GdcIdle
    /\ RerunIdle
    /\ CvIdle

NextBrk == SumMissing \/ SumRun \/ CmpReadBack

SpecBrk == InitBrk /\ [][NextBrk]_vars

(***************************************************************************)
(* Properties of the comparison.                                           *)
(***************************************************************************)
ProdRows == load_csv_data(prod_file)
LatestRows == load_csv_data(latest_file)
TrackRows == load_csv_data(prod_tracking_file)

PairsOf(data) == {PairOf(data[i]) : i \in 1..Len(data)}
KeysOf(data) == {create_package_key(data[i]) : i \in 1..Len(data)}

OutPair(x) == <<x.Package, x.Current_Version>>
OutKey(x) == x.Package \o <<"|">> \o x.Current_Version
OutWithPair(p) == {i \in 1..Len(all_results) : OutPair(all_results[i]) = p}
OutWithKey(k) == {i \in 1..Len(all_results) : OutKey(all_results[i]) = k}

Statuses == {"FIXED", "NEW", "IMPROVED", "WORSENED", "UNCHANGED"}

\* C1: after a comparison of two summaries with rows, every (Package_Name,
\* Current_Version) pair of the baseline or the candidate has exactly one row,
\* no other pair has a row, and every row has one of the five statuses.
C1_OneRowPerPair ==
    cmp_pc = "done" =>
        /\ \A p \in PairsOf(ProdRows) \cup PairsOf(LatestRows) :
               Cardinality(OutWithPair(p)) = 1
        /\ \A i \in 1..Len(all_results) :
               /\ OutPair(all_results[i]) \in PairsOf(ProdRows) \cup PairsOf(LatestRows)
               /\ all_results[i].Status \in Statuses

\* The row a summary holds for a (name, version) pair.
RowOfPair(data, p) == data[CHOOSE i \in 1..Len(data) : PairOf(data[i]) = p]

\* C2: every package key, a (Package_Name, Current_Version) pair, of the
\* baseline that the candidate does not have gets a row with Status FIXED,
\* Vulnerability_Count_Prod = the baseline count N,
\* Vulnerability_Count_Latest = 0 and Impact "Eliminates N vulnerabilities".
C2_FixedRow ==
    cmp_pc = "done" =>
        \A p \in PairsOf(ProdRows) \ PairsOf(LatestRows) :
            \E i \in OutWithPair(p) :
                 LET N == RowOfPair(ProdRows, p).Vulnerability_Count IN
                 /\ all_results[i].Status = "FIXED"
                 /\ all_results[i].Vulnerability_Count_Prod = N
                 /\ all_results[i].Vulnerability_Count_Latest = DecStr(0)
                 /\ all_results[i].Impact = <<"Eliminates ">> \o N \o <<" vulnerabilities">>

\* The same of the name|version texts the comparison works with: a text of the
\* baseline that is no text of the candidate has one row, FIXED, with the count
\* and the Impact of the row the baseline holds for the text.
FixedRowByKeyText ==
    cmp_pc = "done" =>
        \A k \in KeysOf(ProdRows) \ KeysOf(LatestRows) :
            /\ Cardinality(OutWithKey(k)) = 1
            /\ \A i \in OutWithKey(k) :
                 LET N == DictGet(ProdRows, k).Vulnerability_Count IN
                 /\ all_results[i].Status = "FIXED"
                 /\ all_results[i].Vulnerability_Count_Prod = N
                 /\ all_results[i].Vulnerability_Count_Latest = DecStr(0)
                 /\ all_results[i].Impact = <<"Eliminates ">> \o N \o <<" vulnerabilities">>

ImpactShows(impact, b, c) ==
    LET text == DecStr(b) \o <<" -> ">> \o DecStr(c) \o <<" vulnerabilities">>
    IN  \E j \in 1..Len(impact) :
            /\ j + Len(text) - 1 <= Len(impact)
            /\ SubSeq(impact, j, j + Len(text) - 1) = text

\* C4: a package key, a (Package_Name, Current_Version) pair, of both
\* summaries, with the baseline count b and the candidate count c, has a row,
\* and in its row the Status is IMPROVED iff c < b, WORSENED iff c > b,
\* UNCHANGED iff c = b, and when b # c the Impact contains
\* "b -> c vulnerabilities".
C4_BothRow ==
    cmp_pc = "done" =>
        \A p \in PairsOf(ProdRows) \cap PairsOf(LatestRows) :
            /\ OutWithPair(p) # {}
            /\ \A i \in OutWithPair(p) :
                 LET b == ParseInt(RowOfPair(ProdRows, p).Vulnerability_Count)
                     c == ParseInt(RowOfPair(LatestRows, p).Vulnerability_Count)
                 IN
                 /\ all_results[i].Status = "IMPROVED" <=> c < b
                 /\ all_results[i].Status = "WORSENED" <=> c > b
                 /\ all_results[i].Status = "UNCHANGED" <=> c = b
                 /\ b # c => ImpactShows(all_results[i].Impact, b, c)

\* The same of the name|version texts: a text of both sides has one row, with
\* the Status and the Impact of the counts of the rows the two sides hold for it.
BothRowByKeyText ==
    cmp_pc = "done" =>
        \A k \in KeysOf(ProdRows) \cap KeysOf(LatestRows) :
            /\ Cardinality(OutWithKey(k)) = 1
            /\ \A i \in OutWithKey(k) :
                 LET b == ParseInt(DictGet(ProdRows, k).Vulnerability_Count)
                     c == ParseInt(DictGet(LatestRows, k).Vulnerability_Count)
                 IN
                 /\ all_results[i].Status = "IMPROVED" <=> c < b
                 /\ all_results[i].Status = "WORSENED" <=> c > b
                 /\ all_results[i].Status = "UNCHANGED" <=> c = b
                 /\ b # c => ImpactShows(all_results[i].Impact, b, c)

\* The order the output is claimed to have.
ClaimedPriority(status) ==
    CASE status = "FIXED" -> 0
      [] status = "IMPROVED" -> 1
      [] status = "NEW" -> 2
      [] status = "WORSENED" -> 3
      [] status = "UNCHANGED" -> 4

Precedes(x, y) ==
    LET px == ClaimedPriority(x.Status)
        py == ClaimedPriority(y.Status)
        nx == ParseInt(x.Vulnerability_Count_Prod)
        ny == ParseInt(y.Vulnerability_Count_Prod)
    IN  \/ px < py
        \/ px = py /\ nx > ny
        \/ px = py /\ nx = ny /\ StrLess(x.Package, y.Package)

C7_EmptyInput ==
    /\ (cmp_pc # "start" /\ (ProdRows = <<>> \/ LatestRows = <<>>)) =>
           /\ cmp_pc = "skipped"
           /\ all_results = <<>>
           /\ ~output_file.exists
    /\ (cmp_pc # "start" /\ ProdRows # <<>> /\ LatestRows # <<>>) =>
           /\ cmp_pc = "done"
           /\ all_results # <<>>
           /\ output_file.exists
           /\ output_file.rows = all_results

C7_Witness ==
    /\ cmp_pc = "skipped"
    /\ ~prod_file.exists
    /\ latest_file.exists
    /\ LatestRows # <<>>

TrackOfPair(p) == {i \in 1..Len(TrackRows) : PairOf(TrackRows[i]) = p}
TrackOfKey(k) == {i \in 1..Len(TrackRows) : create_package_key(TrackRows[i]) = k}

OrigRows == tracking_csv.rows
IdsIn(dir, image) ==
    IF SbomFileName(image) \in DOMAIN dir /\ dir[SbomFileName(image)].exists
    THEN dir[SbomFileName(image)].ids
    ELSE {}
Candidates == {c \in CandidateImages : SbomFileName(c) \in Files(latest_sbom_dir)}

\* The candidates that match a baseline image: the normalized names are equal.
Matching(image) ==
    {c \in Candidates : normalize_image_name(c) = normalize_image_name(image)}

\* The matching candidates of the image of a row that no longer have its finding.
FixingCandidates(row) ==
    { c \in Matching(row.Image) :
        row.Vulnerability_ID \in
            IdsIn(current_sbom_dir, row.Image) \ IdsIn(latest_sbom_dir, c) }

\* C8: a row is changed only if its image has a matching candidate, its
\* Vulnerability_ID is in baseline_ids minus candidate_ids and its
\* Fixed_Version was 'Check Manually'; a row for which this holds with every
\* matching candidate is changed; a changed row has the full image reference
\* of the candidate as its Fixed_Version and its other columns as before; no
\* row is added or dropped.
C8_OnlyFixedRowsRewritten ==
    ufv_pc = "done" =>
        /\ Len(rows) = Len(OrigRows)
        /\ \A i \in 1..Len(rows) :
             LET row == OrigRows[i] IN
             /\ rows[i] # row =>
                  /\ row.Fixed_Version = CheckManually
                  /\ \E c \in FixingCandidates(row) :
                         rows[i] = [row EXCEPT !.Fixed_Version = c]
             /\ ( /\ row.Fixed_Version = CheckManually
                  /\ Matching(row.Image) # {}
                  /\ FixingCandidates(row) = Matching(row.Image) ) => rows[i] # row

\* The same of the candidate the resolver has chosen for the image, whatever
\* its name: a row is changed iff its image has a chosen candidate, the id is
\* in the ids of the baseline document and not in the ids of the document of
\* the chosen candidate, and the Fixed_Version was 'Check Manually'; a changed
\* row differs in Fixed_Version only, which is the chosen candidate; the
\* output file, when written, holds the rows.
RewriteByChosenCandidate ==
    ufv_pc = "done" =>
        /\ Len(rows) = Len(OrigRows)
        /\ \A i \in 1..Len(rows) :
             LET row == OrigRows[i]
                 acr == acr_images[row.Image]
                 due == /\ acr # None
                        /\ row.Vulnerability_ID \in
                             IdsIn(current_sbom_dir, row.Image) \ IdsIn(latest_sbom_dir, acr)
                        /\ row.Fixed_Version = CheckManually
             IN  rows[i] = IF due THEN [row EXCEPT !.Fixed_Version = acr] ELSE row
        /\ updated_count = Cardinality({i \in 1..Len(rows) : rows[i] # OrigRows[i]})
        /\ output_csv.exists <=> updated_count > 0
        /\ output_csv.exists => output_csv.rows = rows

\* No finding of the image is fixed by a matching candidate: there is no
\* matching candidate, or baseline_ids minus candidate_ids is empty.
NothingFixed(image) ==
    \/ Matching(image) = {}
    \/ \A c \in Matching(image) :
           IdsIn(current_sbom_dir, image) \ IdsIn(latest_sbom_dir, c) = {}

\* C9: when no candidate matches a baseline image, or baseline_ids minus
\* candidate_ids is empty, no row of that image is altered; updated_count is
\* the number of altered rows; when this holds for every image of the rows no
\* output file is written.
C9_NoMatchNoUpdate ==
    ufv_pc = "done" =>
        /\ \A image \in ImagesOf(OrigRows) :
             NothingFixed(image) =>
                 \A i \in 1..Len(OrigRows) :
                     OrigRows[i].Image = image => rows[i] = OrigRows[i]
        /\ updated_count = Cardinality({i \in 1..Len(OrigRows) : rows[i] # OrigRows[i]})
        /\ (\A image \in ImagesOf(OrigRows) : NothingFixed(image)) =>
               /\ updated_count = 0
               /\ ~output_csv.exists

\* C10: the candidate chosen for a baseline image has the normalized name of
\* the baseline image.
C10_SameIdentity ==
    ufv_pc = "done" =>
        \A image \in DOMAIN acr_images :
            acr_images[image] # None =>
                normalize_image_name(acr_images[image]) = normalize_image_name(image)

\* The rows of an image that the run left as they were.
RowsUntouched(image) ==
    \A i \in 1..Len(OrigRows) : OrigRows[i].Image = image => rows[i] = OrigRows[i]

\* The candidate document the resolver loads for an image is not JSON.
CandidateMalformed(image) ==
    /\ acr_images[image] # None
    /\ SbomFileName(acr_images[image]) \in Files(latest_sbom_dir)
    /\ ~latest_sbom_dir[SbomFileName(acr_images[image])].ok

\* C20: when the candidate document matched to a baseline image is not
\* parseable, no row of that image is altered, and the rows of the other
\* images are there as before or rewritten.
C20_MalformedCandidateSkipped ==
    ufv_pc = "done" =>
        /\ Len(rows) = Len(OrigRows)
        /\ \A image \in DOMAIN acr_images :
               (SbomFileName(image) \in Files(current_sbom_dir) /\ CandidateMalformed(image))
                   => RowsUntouched(image)

\* What holds instead: a document that is not JSON is read as a document
\* without findings, so every 'Check Manually' row of the image whose finding
\* is in the baseline document is rewritten.
MalformedCandidateReadAsEmpty ==
    ufv_pc = "done" =>
        \A i \in 1..Len(OrigRows) :
            LET image == OrigRows[i].Image IN
            (SbomFileName(image) \in Files(current_sbom_dir) /\ CandidateMalformed(image))
                => rows[i] = IF /\ OrigRows[i].Vulnerability_ID \in IdsIn(current_sbom_dir, image)
                                /\ OrigRows[i].Fixed_Version = CheckManually
                             THEN [OrigRows[i] EXCEPT !.Fixed_Version = acr_images[image]]
                             ELSE OrigRows[i]

\* The findings of the document, the id a finding is known by, the first
\* findings of their id, and the records of an id.
Findings == sbom_file.vulnerabilities
IdOf(vuln) == IF vuln.id = <<>> THEN "Unknown" ELSE vuln.id[1]
IsFirstOfId(i) == \A j \in 1..(i - 1) : IdOf(Findings[j]) # IdOf(Findings[i])
FirstOfId(id) == Findings[CHOOSE i \in 1..Len(Findings) : IdOf(Findings[i]) = id /\ IsFirstOfId(i)]
RecordsOfId(id) == {k \in 1..Len(csv_data) : csv_data[k].Vulnerability_ID = id}

\* The record has "Unknown" in the fields the finding lacks.
UnknownWhereLacking(record, vuln) ==
    /\ vuln.id = <<>> => record.Vulnerability_ID = "Unknown"
    /\ vuln.ratings = <<>> =>
           /\ record.Severity = UnknownText
           /\ record.CVSS_Score = UnknownText

C12_OncePerId ==
    ext_runs # <<>> =>
        \A k \in 1..Len(csv_data) :
            LET id == csv_data[k].Vulnerability_ID IN
            /\ \E i \in 1..Len(Findings) : IdOf(Findings[i]) = id
            /\ \E hash_order \in Orderings(VersionTextsOf(sbom_file)) :
                   csv_data[k] \in Range(RowsOfFinding(sbom_file, FirstOfId(id), hash_order))
            /\ Cardinality(RecordsOfId(id)) = Len(FirstOfId(id).affects)

C12_Witness ==
    /\ ext_runs # <<>>
    /\ Len(Findings) = 2
    /\ IdOf(Findings[1]) = IdOf(Findings[2])
    /\ Findings[1].ratings # Findings[2].ratings
    /\ Findings[1].affects # <<>> /\ Findings[2].affects # <<>>
    /\ Len(csv_data) = 2

\* The severity of the first rating of the list that has a non-empty severity,
\* in title case, and the text of the first non-empty score; "Unknown" when
\* no rating has one.
FirstSeverity(ratings) ==
    LET with == {i \in 1..Len(ratings) : Get(ratings[i].severity, <<>>) # <<>>}
    IN  IF with = {} THEN UnknownText
        ELSE title(ratings[CHOOSE i \in with : \A j \in with : i <= j].severity[1])

FirstScore(ratings) ==
    LET with == {i \in 1..Len(ratings) : Get(ratings[i].score, 0) # 0}
    IN  IF with = {} THEN UnknownText
        ELSE ScoreText(ratings[CHOOSE i \in with : \A j \in with : i <= j].score[1])

\* C13: the Severity of a record is the severity of the first rating of its
\* finding that has a non-empty severity, case-normalized, and its CVSS_Score
\* the first non-empty score of the ratings; a later rating does not override
\* an earlier severity.
C13_FirstRatingWins ==
    ext_runs # <<>> =>
        \A k \in 1..Len(csv_data) :
            LET vuln == FirstOfId(csv_data[k].Vulnerability_ID) IN
            /\ csv_data[k].Severity = FirstSeverity(vuln.ratings)
            /\ csv_data[k].CVSS_Score = FirstScore(vuln.ratings)

\* The score half of C13 alone: CVSS_Score is the first non-empty score.
FirstScoreWins ==
    ext_runs # <<>> =>
        \A k \in 1..Len(csv_data) :
            csv_data[k].CVSS_Score =
                FirstScore(FirstOfId(csv_data[k].Vulnerability_ID).ratings)

\* A source of the finding yields a version string: a version entry whose
\* status contains "fixed" or "patched" has a version, or an advisory URL that
\* contains "fixed" has a version in it.
YieldsVersion(vuln) ==
    \/ \E a \in 1..Len(vuln.affects) : \E v \in 1..Len(vuln.affects[a].versions) :
           /\ IsFixStatus(Get(vuln.affects[a].versions[v].status, <<>>))
           /\ Get(vuln.affects[a].versions[v].version, <<>>) # <<>>
    \/ \E d \in 1..Len(vuln.advisories) :
           /\ Contains(lower(Get(vuln.advisories[d].url, <<>>)), FixedWord)
           /\ version_match(Get(vuln.advisories[d].url, <<>>)) # <<>>

\* C14: the Fixed_Version of a record is not empty, and it is "Check Manually"
\* exactly when no source of its finding yields a version string.
C14_FixedVersionNeverEmpty ==
    ext_runs # <<>> =>
        \A k \in 1..Len(csv_data) :
            /\ csv_data[k].Fixed_Version # <<>>
            /\ csv_data[k].Fixed_Version = CheckManually
                   <=> ~YieldsVersion(FirstOfId(csv_data[k].Vulnerability_ID))

\* What holds of Fixed_Version on every input: a finding of which a source
\* yields a version string has a Fixed_Version other than "Check Manually",
\* and a finding with no version entry of a fixed or patched status and no
\* version in a "fixed" URL has "Check Manually".
FixedVersionOfSources ==
    ext_runs # <<>> =>
        \A k \in 1..Len(csv_data) :
            LET vuln == FirstOfId(csv_data[k].Vulnerability_ID) IN
            /\ YieldsVersion(vuln) => csv_data[k].Fixed_Version \notin {<<>>, CheckManually}
            /\ AffectVersions(vuln) \cup AdvisoryVersions(vuln) = {}
                   <=> csv_data[k].Fixed_Version = CheckManually

\* The record of the one affect of the one finding has the name and the
\* version of the package URL the affect refers to.
PurlRecord(namespace, name, version, params) ==
    Findings[1].affects[1].ref = <<Purl(namespace, name, version, params)>> =>
        /\ Len(csv_data) = 1
        /\ csv_data[1].Package_Name = name
        /\ csv_data[1].Current_Version = version

\* C15: a record of an affected reference that the component table does not
\* declare and that is a package URL scheme:type/namespace/name@version?params
\* has the name of the URL as Package_Name and the version of the URL, without
\* the ?params part, as Current_Version.
C15_PurlFallback ==
    ext_runs # <<>> =>
        \A namespace \in PurlNamespaces, name \in PurlNames,
           version \in PurlVersions, params \in PurlParams :
            PurlRecord(namespace, name, version, params)

\* The same of the package URLs that have no '/' in their params part.
PurlFallbackPlainParams ==
    ext_runs # <<>> =>
        \A namespace \in PurlNamespaces, name \in PurlNames,
           version \in PurlVersions, params \in PurlParams :
            (params = <<>> \/ ~Contains(params[1], <<"/">>)) =>
                PurlRecord(namespace, name, version, params)

\* The order the records are claimed to have: the rank of the severity, then
\* the score as a number, larger first, a score that is no number as 0.
ClaimedSeverityRank(severity) ==
    CASE severity = CriticalText -> 0
      [] severity = HighText -> 1
      [] severity = MediumText -> 2
      [] severity = LowText -> 3
      [] severity = UnknownText -> 4

ClaimedScore(text) == IF IsNumericText(text) THEN FloatTenths(text) ELSE 0

RecordPrecedes(x, y) ==
    \/ ClaimedSeverityRank(x.Severity) < ClaimedSeverityRank(y.Severity)
    \/ /\ ClaimedSeverityRank(x.Severity) = ClaimedSeverityRank(y.Severity)
       /\ ClaimedScore(x.CVSS_Score) > ClaimedScore(y.CVSS_Score)

SameRank(x, y) == ~RecordPrecedes(x, y) /\ ~RecordPrecedes(y, x)

\* The records of a list that rank with a given record, in the order of the list.
RankingWith(records, x) ==
    LET Same(y) == SameRank(x, y) IN SelectSeq(records, Same)

\* C16: of two consecutive records of the output the later one never precedes
\* the earlier one in the order (severity rank ascending, score descending,
\* a score that is no number as 0), and the records that are equal on both
\* keys are the records the loop made, values unchanged, in the order it made
\* them in.
C16_SortedStable ==
    ext_runs # <<>> =>
        /\ \A k \in 1..(Len(csv_data) - 1) : ~RecordPrecedes(csv_data[k + 1], csv_data[k])
        /\ \E hash_order \in Orderings(VersionTextsOf(sbom_file)) :
             LET made == CsvRows(sbom_file, Findings, {}, hash_order) IN
             /\ Len(made) = Len(csv_data)
             /\ \A k \in 1..Len(made) :
                    RankingWith(csv_data, made[k]) = RankingWith(made, made[k])

C16_Witness ==
    /\ ext_runs # <<>>
    /\ Len(csv_data) = 4
    /\ csv_data[1].Vulnerability_ID = IdOf(Findings[2])
    /\ csv_data[1].Severity = csv_data[3].Severity
    /\ csv_data[1].CVSS_Score = ScoreText(98)
    /\ csv_data[3].CVSS_Score = ScoreText(75)
    /\ csv_data[1] # csv_data[2]
    /\ SameRank(csv_data[1], csv_data[2])

\* C17: all runs of the extractor on the document give the same sequence of
\* records.
C17_Deterministic ==
    \A i, j \in 1..Len(ext_runs) : ext_runs[i] = ext_runs[j]

C17_Witness ==
    /\ Len(ext_runs) = 2
    /\ \E k \in 1..Len(csv_data) : csv_data[k].Fixed_Version = V110 \o <<", ">> \o V12
    /\ Len(csv_data) = 4

(***************************************************************************)
(* Properties of the summary.                                              *)
(***************************************************************************)
SumData == input_csv.rows
SumDone == sum_pc = "done" /\ input_csv.exists

\* The records of the tracking file of a package, by its pair and by its key text.
RecordsOfPair(p) == {i \in 1..Len(SumData) : PairOf(SumData[i]) = p}
RecordsOfKey(key) == {i \in 1..Len(SumData) : package_key(SumData[i]) = key}
SummaryOfPair(p) == {k \in 1..Len(summary_data) : PairOf(summary_data[k]) = p}
SummaryOfKey(key) == {k \in 1..Len(summary_data) : package_key(summary_data[k]) = key}

\* C18: for every record of the tracking file there is exactly one summary
\* row with the record's (Package_Name, Current_Version), and that row counts
\* the records of this pair and no record of another pair.
C18_OneRowPerPair ==
    SumDone =>
        \A i \in 1..Len(SumData) :
            /\ Cardinality(SummaryOfPair(PairOf(SumData[i]))) = 1
            /\ \A k \in SummaryOfPair(PairOf(SumData[i])) :
                   summary_data[k].Vulnerability_Count =
                       Cardinality(RecordsOfPair(PairOf(SumData[i])))

\* What the grouping does keep: there is one summary row for each text
\* name@version, and it counts the records with this text.
OneRowPerKeyText ==
    SumDone =>
        \A i \in 1..Len(SumData) :
            /\ Cardinality(SummaryOfKey(package_key(SumData[i]))) = 1
            /\ \A k \in SummaryOfKey(package_key(SumData[i])) :
                   summary_data[k].Vulnerability_Count =
                       Cardinality(RecordsOfKey(package_key(SumData[i])))

\* The least severity rank of a set of records of the tracking file.
LeastRank(S) ==
    CHOOSE r \in {ClaimedSeverityRank(SumData[i].Severity) : i \in S} :
        \A i \in S : r <= ClaimedSeverityRank(SumData[i].Severity)

\* The Priority claimed for a group whose most severe record has rank r.
ClaimedSummaryPriority(r) ==
    IF r <= 1 THEN HighText ELSE IF r = 2 THEN MediumText ELSE LowText

\* C19: in every summary row Highest_Severity has the least severity rank of
\* the records of the row's package, and Priority is High iff one of these
\* records is Critical or High, Medium iff none is and the most severe is
\* Medium, and Low otherwise.
C19_HighestSeverityAndPriority ==
    SumDone =>
        \A k \in 1..Len(summary_data) :
            LET group == RecordsOfPair(PairOf(summary_data[k])) IN
            /\ ClaimedSeverityRank(summary_data[k].Highest_Severity) = LeastRank(group)
            /\ summary_data[k].Priority = ClaimedSummaryPriority(LeastRank(group))

\* What holds of the records filed under the row's text name@version.
HighestSeverityByKeyText ==
    SumDone =>
        \A k \in 1..Len(summary_data) :
            LET group == RecordsOfKey(package_key(summary_data[k])) IN
            /\ ClaimedSeverityRank(summary_data[k].Highest_Severity) = LeastRank(group)
            /\ summary_data[k].Priority = ClaimedSummaryPriority(LeastRank(group))

(***************************************************************************)
(* Properties of the extractor, continued.                                 *)
(***************************************************************************)
SeverityNames == {CriticalText, HighText, MediumText, LowText, UnknownText}

\* C21: the Severity of every record is one of Critical, High, Medium, Low,
\* Unknown, whatever severity texts the ratings carry.
C21_SeverityEnumerated ==
    ext_runs # <<>> =>
        \A k \in 1..Len(csv_data) : csv_data[k].Severity \in SeverityNames

\* What holds instead: the Severity is Unknown or the text of one of the
\* finding's ratings, its words capitalised.
SeverityIsTitledRating ==
    ext_runs # <<>> =>
        \A k \in 1..Len(csv_data) :
            LET ratings == FirstOfId(csv_data[k].Vulnerability_ID).ratings IN
            \/ csv_data[k].Severity = UnknownText
            \/ \E i \in 1..Len(ratings) :
                   /\ ratings[i].severity # <<>>
                   /\ csv_data[k].Severity = title(ratings[i].severity[1])

(***************************************************************************)
(* Properties of the summary, continued.                                   *)
(***************************************************************************)
\* The Fixed_Version values of a set of records of the tracking file.
FixedValues(S) == {SumData[i].Fixed_Version : i \in S}

Blank(text) == \A i \in 1..Len(text) : IsWhite(text[i])

\* The texts that join the values of a set, each once, in ascending order.
SortedJoins(values) ==
    { Join(order, CommaSpace) :
        order \in { o \in Orderings(values) :
                      \A i \in 1..(Len(o) - 1) : StrLess(o[i], o[i + 1]) } }

ClaimedPriorityRank(priority) ==
    CASE priority = HighText -> 0
      [] priority = MediumText -> 1
      [] priority = LowText -> 2

ClaimedMaxScore(text) == IF text = UnknownText THEN 0 ELSE FloatTenths(text)

SummaryPrecedes(x, y) ==
    \/ ClaimedPriorityRank(x.Priority) < ClaimedPriorityRank(y.Priority)
    \/ /\ ClaimedPriorityRank(x.Priority) = ClaimedPriorityRank(y.Priority)
       /\ \/ ClaimedSeverityRank(x.Highest_Severity) < ClaimedSeverityRank(y.Highest_Severity)
          \/ /\ ClaimedSeverityRank(x.Highest_Severity) = ClaimedSeverityRank(y.Highest_Severity)
             /\ ClaimedMaxScore(x.Max_CVSS_Score) > ClaimedMaxScore(y.Max_CVSS_Score)

\* The place of a summary row in the grouping order: the first record of the
\* tracking file that is filed under the row's key.
GroupingPlace(x) ==
    CHOOSE i \in RecordsOfKey(package_key(x)) :
        \A j \in RecordsOfKey(package_key(x)) : i <= j

\* C23: no summary row is followed by a row that precedes it in the order
\* (Priority rank, then severity rank of Highest_Severity, then Max_CVSS_Score
\* descending, an unknown score as 0), and rows that are equal on the three
\* keys are in their grouping order.
C23_SummarySorted ==
    SumDone =>
        \A k, l \in 1..Len(summary_data) :
            k < l =>
                /\ ~SummaryPrecedes(summary_data[l], summary_data[k])
                /\ ~SummaryPrecedes(summary_data[k], summary_data[l])
                       => GroupingPlace(summary_data[k]) < GroupingPlace(summary_data[l])

\* Two rows of priority High and severity High that the sort has exchanged:
\* the score decides.
C23_Witness ==
    /\ SumDone
    /\ Len(summary_data) = 2
    /\ summary_data[1].Highest_Severity = HighText
    /\ summary_data[2].Highest_Severity = HighText
    /\ summary_data[1].Max_CVSS_Score = ScoreText(98)
    /\ summary_data[2].Max_CVSS_Score = ScoreText(75)
    /\ GroupingPlace(summary_data[2]) < GroupingPlace(summary_data[1])

\* Two rows that are equal on the three keys.
SummaryTieReached ==
    /\ SumDone
    /\ Len(summary_data) = 2
    /\ ~SummaryPrecedes(summary_data[1], summary_data[2])
    /\ ~SummaryPrecedes(summary_data[2], summary_data[1])

(***************************************************************************)
(* Properties of the operating system report.                              *)
(***************************************************************************)
\* The files of the directory that hold a well-formed SBOM document.
WellFormed == {f \in DOMAIN sbom_dir : ~Raises(sbom_dir[f])}

\* C24: process_sbom_directory returns one result for every readable,
\* well-formed document of the directory and none for another file, the
\* results in the ascending order of their file names, whatever files that
\* cannot be read or parsed lie between them.
C24_OneResultPerGoodDocument ==
    os_pc = "done" =>
        /\ Len(os_results) = Cardinality(WellFormed)
        /\ \A k \in 1..Len(os_results) : os_results[k].sbom_file \in WellFormed
        /\ \A k \in 1..(Len(os_results) - 1) :
               StrLess(os_results[k].sbom_file, os_results[k + 1].sbom_file)

\* Two results with a file that is not JSON between them and an unreadable
\* file before them.
C24_Witness ==
    /\ os_pc = "done"
    /\ Len(os_results) = 2
    /\ DOMAIN sbom_dir = {OsNames[1], OsNames[2], OsNames[3]}
    /\ sbom_dir[OsNames[1]] = SbomDocument(<<"i1">>, << OsComponent("operating-system", <<"alpine">>, <<"3.18">>) >>)
    /\ sbom_dir[OsNames[2]] = NotJson
    /\ os_results[2].sbom_file = OsNames[3]

(***************************************************************************)
(* Properties of _generate_detailed_comparison.                            *)
(***************************************************************************)
GdcReturned == gdc_pc \in {"done", "failed"}

\* C25: on every exit path reports/production is what it was before the
\* call, absent if it was absent, and there is no reports/production_backup.
C25_ProductionRestored ==
    GdcReturned =>
        /\ reports.production = reports_before.production
        /\ reports.production_backup = "absent"

\* What holds: when no script fails and reports/production was there before
\* the call, it is there as before and no backup of it is left.
ProductionRestoredWithoutFailure ==
    (gdc_pc = "done" /\ ProductionExists(reports_before)) =>
        /\ reports.production = reports_before.production
        /\ reports.production_backup = "absent"

\* C26: after the call the two comparison files, when they exist, hold the
\* results for production and never those for dev, and no *_prod_backup file
\* remains.
C26_ProdNamesHoldProdResults ==
    GdcReturned =>
        /\ reports.summary_txt \in {"absent", "prod"}
        /\ reports.detailed_csv \in {"absent", "prod"}
        /\ reports.summary_backup = "absent"
        /\ reports.detailed_backup = "absent"

\* What holds: when the call ends without an exception no *_prod_backup file
\* remains.
NoBackupFileWithoutException ==
    gdc_pc = "done" =>
        /\ reports.summary_backup = "absent"
        /\ reports.detailed_backup = "absent"

\* Dev results under the name of the production summary after a call that
\* ended without an exception.
DevResultsUnderProdName == gdc_pc = "done" /\ reports.summary_txt = "dev"

(***************************************************************************)
(* Properties of the resolver, continued.                                  *)
(***************************************************************************)
\* The candidate references whose SBOM is stored under a file name.
RealReferences(file) ==
    {r \in CandidateImages \cup RtCandidates : SbomFileName(r) = file}

\* C27: what find_acr_image_version returns for an image with matching
\* files is the real reference of one of these files: the reference whose
\* '/' and ':' were replaced to make the file name.
C27_FileNameRoundTrip ==
    ufv_pc = "done" =>
        \A image \in DOMAIN acr_images :
            (/\ SbomFileName(image) \in Files(current_sbom_dir)
             /\ matching_files(image, latest_sbom_dir) # {})
                => \E file \in matching_files(image, latest_sbom_dir) :
                       acr_images[image] \in RealReferences(file)

\* The resolver has written the decoded file name into a row.
DecodedNameWritten ==
    /\ ufv_pc = "done"
    /\ \E i \in 1..Len(rows) : rows[i].Fixed_Version = <<"r", "/", "5", "/", "a", ":", "2">>

(***************************************************************************)
(* Properties of the summary read by the comparison.                       *)
(***************************************************************************)
\* The number of records with a severity among the records filed under a key.
SeverityCount(key, severity) ==
    Cardinality({i \in RecordsOfKey(key) : SumData[i].Severity = severity})

\* The sum of the counts of a list of (severity, count) pairs.
RECURSIVE SumOfCounts(_)
SumOfCounts(matches) ==
    IF matches = <<>> THEN 0 ELSE ParseInt(matches[1][2]) + SumOfCounts(Tail(matches))

\* C28: the High and Critical counts the comparison reads from the
\* Severity_Breakdown of a summary row are the numbers of records of the
\* row's group with severity High and Critical, and the counts of the
\* Severity_Breakdown add up to Vulnerability_Count.
C28_SeverityCountsSurvive ==
    brk_pc = "done" =>
        /\ Len(severity_columns) = Len(summary_data)
        /\ \A k \in 1..Len(summary_data) :
               LET key == package_key(summary_data[k]) IN
               /\ severity_columns[k].High_Severity = DecStr(SeverityCount(key, HighText))
               /\ severity_columns[k].Critical_Severity = DecStr(SeverityCount(key, CriticalText))
               /\ SumOfCounts(findall(summary_data[k].Severity_Breakdown, 1))
                      = summary_data[k].Vulnerability_Count

C28_Witness ==
    /\ brk_pc = "done"
    /\ \E k \in 1..Len(summary_data) :
           /\ summary_data[k].Vulnerability_Count = 2
           /\ severity_columns[k].High_Severity = <<"1">>
           /\ severity_columns[k].Critical_Severity = <<"1">>

StatusCount(status) ==
    Cardinality({i \in 1..Len(all_results) : all_results[i].Status = status})

BothCompared == cmp_pc = "done" /\ cv_pc = "done"

\* C30: for the same two summaries, the number of packages
\* compare_vulnerabilities reports as fixed is the number of FIXED rows of
\* generate_detailed_comparison, and the number it reports as new is the
\* number of NEW rows.
C30_ComparatorsAgree ==
    BothCompared =>
        /\ cv_fixed = StatusCount("FIXED")
        /\ cv_new = StatusCount("NEW")

\* Every package name stands in the two summaries with one version only, and
\* packages of one key text have one name.
OneVersionPerName ==
    LET all == load_csv_data(prod_file) \o load_csv_data(latest_file) IN
    \A i, j \in 1..Len(all) :
        /\ all[i].Package_Name = all[j].Package_Name
               => all[i].Current_Version = all[j].Current_Version
        /\ create_package_key(all[i]) = create_package_key(all[j])
               => all[i].Package_Name = all[j].Package_Name

\* When every package name has one version in the two summaries, the two
\* comparisons count the same packages.
ComparatorsAgreeOnOneVersionPerName ==
    (BothCompared /\ OneVersionPerName) =>
        /\ cv_fixed = StatusCount("FIXED")
        /\ cv_new = StatusCount("NEW")

\* One package name with another version in each summary: no name is fixed
\* or new, and the detailed comparison has a FIXED and a NEW row.
VersionChangeCompared ==
    /\ BothCompared
    /\ cv_fixed = 0
    /\ cv_new = 0
    /\ StatusCount("FIXED") = 1
    /\ StatusCount("NEW") = 1

\* A package is fixed and counted by both.
AgreedOnFixed ==
    /\ BothCompared
    /\ OneVersionPerName
    /\ cv_fixed = 1
    /\ StatusCount("FIXED") = 1

====
